---- MODULE Spec2Model ----
(***************************************************************************)
(* Tool gateway of the nanda-ssi-demo repository: the MCP tool modules     *)
(*   mcp_tools/traction_api_tool.py, tools/traction_api.py,                *)
(*   acapy_api_tool.py, mcp_tools/acapy_api_tool.py                        *)
(* Each tool is a coroutine: it runs until it awaits an HTTP request, the  *)
(* identity-agent answers (or does not), and the coroutine resumes.        *)
(* Spec follows one call at a time with a clock; SpecSideBySide lets the   *)
(* event loop interleave several calls at their awaits.                    *)
(*                                                                         *)
(* Strings are sequences of code points, so that strip(), lower(),         *)
(* json.dumps, base64 and json.loads are computed character by character.  *)
(***************************************************************************)
EXTENDS Integers, Sequences, FiniteSets, TLC

\* ------------------------------------------------------------------------
\* Bounds of the model
\* ------------------------------------------------------------------------
\* longest caller-supplied string (connection id, message content, alias)
MaxLen == 2
\* the clock stops this many seconds after a request was sent
MaxClock == 12

\* ------------------------------------------------------------------------
\* String literals of the tool modules
\* ------------------------------------------------------------------------
\* "http://localhost:8021"
ACAPY_BASE_URL ==
  <<104, 116, 116, 112, 58, 47, 47, 108, 111, 99, 97, 108, 104, 111, 115, 116, 58, 56, 48, 50, 49>>
\* "http://localhost:8032"
TRACTION_BASE_URL ==
  <<104, 116, 116, 112, 58, 47, 47, 108, 111, 99, 97, 108, 104, 111, 115, 116, 58, 56, 48, 51, 50>>
\* "https://92ce-80-40-22-48.ngrok-free.app"
base_url ==
  <<104, 116, 116, 112, 115, 58, 47, 47, 57, 50, 99, 101, 45, 56, 48, 45, 52, 48, 45, 50, 50, 45, 52, 56, 46, 110, 103, 114, 111, 107, 45, 102, 114, 101, 101, 46, 97, 112, 112>>
\* "?oob="
kOob ==
  <<63, 111, 111, 98, 61>>
\* "invitation"
kInvitation ==
  <<105, 110, 118, 105, 116, 97, 116, 105, 111, 110>>
\* "token"
kToken ==
  <<116, 111, 107, 101, 110>>
\* "error"
kError ==
  <<101, 114, 114, 111, 114>>
\* "status"
kStatus ==
  <<115, 116, 97, 116, 117, 115>>
\* "result"
kResult ==
  <<114, 101, 115, 117, 108, 116>>
\* "results"
kResults ==
  <<114, 101, 115, 117, 108, 116, 115>>
\* "did"
kDid ==
  <<100, 105, 100>>
\* "state"
kState ==
  <<115, 116, 97, 116, 101>>
\* "active"
kActive ==
  <<97, 99, 116, 105, 118, 101>>
\* "connection_id"
kConnectionId ==
  <<99, 111, 110, 110, 101, 99, 116, 105, 111, 110, 95, 105, 100>>
\* "connection"
kConnection ==
  <<99, 111, 110, 110, 101, 99, 116, 105, 111, 110>>
\* "their_label"
kTheirLabel ==
  <<116, 104, 101, 105, 114, 95, 108, 97, 98, 101, 108>>
\* "content"
kContent ==
  <<99, 111, 110, 116, 101, 110, 116>>
\* "credential_definition_ids"
kCredDefIds ==
  <<99, 114, 101, 100, 101, 110, 116, 105, 97, 108, 95, 100, 101, 102, 105, 110, 105, 116, 105, 111, 110, 95, 105, 100, 115>>
\* "issuer_did"
kIssuerDid ==
  <<105, 115, 115, 117, 101, 114, 95, 100, 105, 100>>
\* "schema_id"
kSchemaId ==
  <<115, 99, 104, 101, 109, 97, 95, 105, 100>>
\* "cred_def_id"
kCredDefId ==
  <<99, 114, 101, 100, 95, 100, 101, 102, 95, 105, 100>>
\* "credential_preview"
kCredentialPreview ==
  <<99, 114, 101, 100, 101, 110, 116, 105, 97, 108, 95, 112, 114, 101, 118, 105, 101, 119>>
\* "@type"
kType ==
  <<64, 116, 121, 112, 101>>
\* "attributes"
kAttributes ==
  <<97, 116, 116, 114, 105, 98, 117, 116, 101, 115>>
\* "auto_issue"
kAutoIssue ==
  <<97, 117, 116, 111, 95, 105, 115, 115, 117, 101>>
\* "api_key"
kApiKey ==
  <<97, 112, 105, 95, 107, 101, 121>>
\* "Authorization"
kAuthorization ==
  <<65, 117, 116, 104, 111, 114, 105, 122, 97, 116, 105, 111, 110>>
\* "Content-Type"
kContentType ==
  <<67, 111, 110, 116, 101, 110, 116, 45, 84, 121, 112, 101>>
\* "application/json"
kApplicationJson ==
  <<97, 112, 112, 108, 105, 99, 97, 116, 105, 111, 110, 47, 106, 115, 111, 110>>
\* "Bearer "
kBearer ==
  <<66, 101, 97, 114, 101, 114, 32>>
\* "alias"
kAlias ==
  <<97, 108, 105, 97, 115>>
\* "my_label"
kMyLabel ==
  <<109, 121, 95, 108, 97, 98, 101, 108>>
\* "use_public_did"
kUsePublicDid ==
  <<117, 115, 101, 95, 112, 117, 98, 108, 105, 99, 95, 100, 105, 100>>
\* "handshake_protocols"
kHandshakeProtocols ==
  <<104, 97, 110, 100, 115, 104, 97, 107, 101, 95, 112, 114, 111, 116, 111, 99, 111, 108, 115>>
\* "metadata"
kMetadata ==
  <<109, 101, 116, 97, 100, 97, 116, 97>>
\* "connection_protocol"
kConnectionProtocol ==
  <<99, 111, 110, 110, 101, 99, 116, 105, 111, 110, 95, 112, 114, 111, 116, 111, 99, 111, 108>>
\* "invitation_key"
kInvitationKey ==
  <<105, 110, 118, 105, 116, 97, 116, 105, 111, 110, 95, 107, 101, 121>>
\* "invitation_msg_id"
kInvitationMsgId ==
  <<105, 110, 118, 105, 116, 97, 116, 105, 111, 110, 95, 109, 115, 103, 95, 105, 100>>
\* "limit"
kLimit ==
  <<108, 105, 109, 105, 116>>
\* "my_did"
kMyDid ==
  <<109, 121, 95, 100, 105, 100>>
\* "offset"
kOffset ==
  <<111, 102, 102, 115, 101, 116>>
\* "their_did"
kTheirDid ==
  <<116, 104, 101, 105, 114, 95, 100, 105, 100>>
\* "their_public_did"
kTheirPublicDid ==
  <<116, 104, 101, 105, 114, 95, 112, 117, 98, 108, 105, 99, 95, 100, 105, 100>>
\* "their_role"
kTheirRole ==
  <<116, 104, 101, 105, 114, 95, 114, 111, 108, 101>>
\* "PLACEHOLDER_SCHEMA_ID"
PLACEHOLDER_SCHEMA_ID ==
  <<80, 76, 65, 67, 69, 72, 79, 76, 68, 69, 82, 95, 83, 67, 72, 69, 77, 65, 95, 73, 68>>
\* "https://didcomm.org/issue-credential/2.0/credential-preview"
kPreviewType ==
  <<104, 116, 116, 112, 115, 58, 47, 47, 100, 105, 100, 99, 111, 109, 109, 46, 111, 114, 103, 47, 105, 115, 115, 117, 101, 45, 99, 114, 101, 100, 101, 110, 116, 105, 97, 108, 47, 50, 46, 48, 47, 99, 114, 101, 100, 101, 110, 116, 105, 97, 108, 45, 112, 114, 101, 118, 105, 101, 119>>
\* "https://didcomm.org/didexchange/1.0"
kDidExchange ==
  <<104, 116, 116, 112, 115, 58, 47, 47, 100, 105, 100, 99, 111, 109, 109, 46, 111, 114, 103, 47, 100, 105, 100, 101, 120, 99, 104, 97, 110, 103, 101, 47, 49, 46, 48>>
\* "/connections"
pConnections ==
  <<47, 99, 111, 110, 110, 101, 99, 116, 105, 111, 110, 115>>
\* "/connections/"
pConnectionsSlash ==
  <<47, 99, 111, 110, 110, 101, 99, 116, 105, 111, 110, 115, 47>>
\* "/send-message"
pSendMessage ==
  <<47, 115, 101, 110, 100, 45, 109, 101, 115, 115, 97, 103, 101>>
\* "/wallet/did/public"
pPublicDid ==
  <<47, 119, 97, 108, 108, 101, 116, 47, 100, 105, 100, 47, 112, 117, 98, 108, 105, 99>>
\* "/credential-definitions/created"
pCredDefsCreated ==
  <<47, 99, 114, 101, 100, 101, 110, 116, 105, 97, 108, 45, 100, 101, 102, 105, 110, 105, 116, 105, 111, 110, 115, 47, 99, 114, 101, 97, 116, 101, 100>>
\* "/issue-credential-2.0/send"
pIssueSend ==
  <<47, 105, 115, 115, 117, 101, 45, 99, 114, 101, 100, 101, 110, 116, 105, 97, 108, 45, 50, 46, 48, 47, 115, 101, 110, 100>>
\* "/multitenancy/tenant/"
pTenantTokenPre ==
  <<47, 109, 117, 108, 116, 105, 116, 101, 110, 97, 110, 99, 121, 47, 116, 101, 110, 97, 110, 116, 47>>
\* "/token"
pTenantTokenPost ==
  <<47, 116, 111, 107, 101, 110>>
\* "/tenant"
pTenant ==
  <<47, 116, 101, 110, 97, 110, 116>>
\* "/out-of-band/create-invitation"
pCreateInvitation ==
  <<47, 111, 117, 116, 45, 111, 102, 45, 98, 97, 110, 100, 47, 99, 114, 101, 97, 116, 101, 45, 105, 110, 118, 105, 116, 97, 116, 105, 111, 110>>
\* "get"
mGet ==
  <<103, 101, 116>>
\* "post"
mPost ==
  <<112, 111, 115, 116>>
\* "put"
mPut ==
  <<112, 117, 116>>
\* "delete"
mDelete ==
  <<100, 101, 108, 101, 116, 101>>
\* "Error: A valid connection ID must be provided."
eConnIdRequired ==
  <<69, 114, 114, 111, 114, 58, 32, 65, 32, 118, 97, 108, 105, 100, 32, 99, 111, 110, 110, 101, 99, 116, 105, 111, 110, 32, 73, 68, 32, 109, 117, 115, 116, 32, 98, 101, 32, 112, 114, 111, 118, 105, 100, 101, 100, 46>>
\* "Error: Message content must be a valid string."
eContentRequired ==
  <<69, 114, 114, 111, 114, 58, 32, 77, 101, 115, 115, 97, 103, 101, 32, 99, 111, 110, 116, 101, 110, 116, 32, 109, 117, 115, 116, 32, 98, 101, 32, 97, 32, 118, 97, 108, 105, 100, 32, 115, 116, 114, 105, 110, 103, 46>>
\* "Error: Connection ID is required."
eBasicConnIdRequired ==
  <<69, 114, 114, 111, 114, 58, 32, 67, 111, 110, 110, 101, 99, 116, 105, 111, 110, 32, 73, 68, 32, 105, 115, 32, 114, 101, 113, 117, 105, 114, 101, 100, 46>>
\* "Error: Message content is required."
eBasicContentRequired ==
  <<69, 114, 114, 111, 114, 58, 32, 77, 101, 115, 115, 97, 103, 101, 32, 99, 111, 110, 116, 101, 110, 116, 32, 105, 115, 32, 114, 101, 113, 117, 105, 114, 101, 100, 46>>
\* "Error: Could not retrieve public DID."
eNoPublicDid ==
  <<69, 114, 114, 111, 114, 58, 32, 67, 111, 117, 108, 100, 32, 110, 111, 116, 32, 114, 101, 116, 114, 105, 101, 118, 101, 32, 112, 117, 98, 108, 105, 99, 32, 68, 73, 68, 46>>
\* "Error: No active connections found."
eNoActiveConnections ==
  <<69, 114, 114, 111, 114, 58, 32, 78, 111, 32, 97, 99, 116, 105, 118, 101, 32, 99, 111, 110, 110, 101, 99, 116, 105, 111, 110, 115, 32, 102, 111, 117, 110, 100, 46>>
\* "Error: No credential definitions found."
eNoCredDefs ==
  <<69, 114, 114, 111, 114, 58, 32, 78, 111, 32, 99, 114, 101, 100, 101, 110, 116, 105, 97, 108, 32, 100, 101, 102, 105, 110, 105, 116, 105, 111, 110, 115, 32, 102, 111, 117, 110, 100, 46>>
\* "Invalid JSON for credential attributes: "
eInvalidAttrsJson ==
  <<73, 110, 118, 97, 108, 105, 100, 32, 74, 83, 79, 78, 32, 102, 111, 114, 32, 99, 114, 101, 100, 101, 110, 116, 105, 97, 108, 32, 97, 116, 116, 114, 105, 98, 117, 116, 101, 115, 58, 32>>
\* "Invalid input type: credential_attributes should be a JSON string or a list."
eInvalidInputType ==
  <<73, 110, 118, 97, 108, 105, 100, 32, 105, 110, 112, 117, 116, 32, 116, 121, 112, 101, 58, 32, 99, 114, 101, 100, 101, 110, 116, 105, 97, 108, 95, 97, 116, 116, 114, 105, 98, 117, 116, 101, 115, 32, 115, 104, 111, 117, 108, 100, 32, 98, 101, 32, 97, 32, 74, 83, 79, 78, 32, 115, 116, 114, 105, 110, 103, 32, 111, 114, 32, 97, 32, 108, 105, 115, 116, 46>>
\* "Error: Unable to retrieve token"
eNoToken ==
  <<69, 114, 114, 111, 114, 58, 32, 85, 110, 97, 98, 108, 101, 32, 116, 111, 32, 114, 101, 116, 114, 105, 101, 118, 101, 32, 116, 111, 107, 101, 110>>
\* "Error: TENANT_ID or API_KEY is missing"
eMissingConfig ==
  <<69, 114, 114, 111, 114, 58, 32, 84, 69, 78, 65, 78, 84, 95, 73, 68, 32, 111, 114, 32, 65, 80, 73, 95, 75, 69, 89, 32, 105, 115, 32, 109, 105, 115, 115, 105, 110, 103>>
\* "No connections found with alias '"
eNoConnWithAlias ==
  <<78, 111, 32, 99, 111, 110, 110, 101, 99, 116, 105, 111, 110, 115, 32, 102, 111, 117, 110, 100, 32, 119, 105, 116, 104, 32, 97, 108, 105, 97, 115, 32, 39>>
\* "Missing connection ID"
eMissingConnId ==
  <<77, 105, 115, 115, 105, 110, 103, 32, 99, 111, 110, 110, 101, 99, 116, 105, 111, 110, 32, 73, 68>>
\* "Invalid JSON for invitation: "
eInvalidInvitation ==
  <<73, 110, 118, 97, 108, 105, 100, 32, 74, 83, 79, 78, 32, 102, 111, 114, 32, 105, 110, 118, 105, 116, 97, 116, 105, 111, 110, 58, 32>>
\* "Invalid JSON for credential offer: "
eInvalidOffer ==
  <<73, 110, 118, 97, 108, 105, 100, 32, 74, 83, 79, 78, 32, 102, 111, 114, 32, 99, 114, 101, 100, 101, 110, 116, 105, 97, 108, 32, 111, 102, 102, 101, 114, 58, 32>>
\* "Invalid JSON for proof request: "
eInvalidProofRequest ==
  <<73, 110, 118, 97, 108, 105, 100, 32, 74, 83, 79, 78, 32, 102, 111, 114, 32, 112, 114, 111, 111, 102, 32, 114, 101, 113, 117, 101, 115, 116, 58, 32>>
\* "Invalid JSON payload: "
eInvalidPayload ==
  <<73, 110, 118, 97, 108, 105, 100, 32, 74, 83, 79, 78, 32, 112, 97, 121, 108, 111, 97, 100, 58, 32>>
\* "Invalid JSON for DID info: "
eInvalidDidInfo ==
  <<73, 110, 118, 97, 108, 105, 100, 32, 74, 83, 79, 78, 32, 102, 111, 114, 32, 68, 73, 68, 32, 105, 110, 102, 111, 58, 32>>
\* "/connections/receive-invitation"
pReceiveInvitation ==
  <<47, 99, 111, 110, 110, 101, 99, 116, 105, 111, 110, 115, 47, 114, 101, 99, 101, 105, 118, 101, 45, 105, 110, 118, 105, 116, 97, 116, 105, 111, 110>>
\* "/present-proof-2.0/send-request"
pProofSendRequest ==
  <<47, 112, 114, 101, 115, 101, 110, 116, 45, 112, 114, 111, 111, 102, 45, 50, 46, 48, 47, 115, 101, 110, 100, 45, 114, 101, 113, 117, 101, 115, 116>>
\* "/issue-credential-2.0/send-offer"
pSendOffer ==
  <<47, 105, 115, 115, 117, 101, 45, 99, 114, 101, 100, 101, 110, 116, 105, 97, 108, 45, 50, 46, 48, 47, 115, 101, 110, 100, 45, 111, 102, 102, 101, 114>>
\* "/issue-credential-2.0/records/"
pRecords ==
  <<47, 105, 115, 115, 117, 101, 45, 99, 114, 101, 100, 101, 110, 116, 105, 97, 108, 45, 50, 46, 48, 47, 114, 101, 99, 111, 114, 100, 115, 47>>
\* "/send-request"
pSendRequest ==
  <<47, 115, 101, 110, 100, 45, 114, 101, 113, 117, 101, 115, 116>>
\* "/issue"
pIssue ==
  <<47, 105, 115, 115, 117, 101>>
\* "/store"
pStore ==
  <<47, 115, 116, 111, 114, 101>>
\* "/ledger/register-nym"
pRegisterNym ==
  <<47, 108, 101, 100, 103, 101, 114, 47, 114, 101, 103, 105, 115, 116, 101, 114, 45, 110, 121, 109>>
\* "schema_issuer_did"
kSchemaIssuerDid ==
  <<115, 99, 104, 101, 109, 97, 95, 105, 115, 115, 117, 101, 114, 95, 100, 105, 100>>
\* "schema_name"
kSchemaName ==
  <<115, 99, 104, 101, 109, 97, 95, 110, 97, 109, 101>>
\* "schema_version"
kSchemaVersion ==
  <<115, 99, 104, 101, 109, 97, 95, 118, 101, 114, 115, 105, 111, 110>>
\* "/schemas/created"
pSchemasCreated ==
  <<47, 115, 99, 104, 101, 109, 97, 115, 47, 99, 114, 101, 97, 116, 101, 100>>
\* "/status"
pStatus ==
  <<47, 115, 116, 97, 116, 117, 115>>
\* "http://test.bcovrin.vonx.io/"
BCOVRIN_URL ==
  <<104, 116, 116, 112, 58, 47, 47, 116, 101, 115, 116, 46, 98, 99, 111, 118, 114, 105, 110, 46, 118, 111, 110, 120, 46, 105, 111, 47>>
\* "query"
kQuery ==
  <<113, 117, 101, 114, 121>>
\* "Error: Received status code "
eStatusCode ==
  <<69, 114, 114, 111, 114, 58, 32, 82, 101, 99, 101, 105, 118, 101, 100, 32, 115, 116, 97, 116, 117, 115, 32, 99, 111, 100, 101, 32>>
\* "Exception occurred: "
eExceptionOccurred ==
  <<69, 120, 99, 101, 112, 116, 105, 111, 110, 32, 111, 99, 99, 117, 114, 114, 101, 100, 58, 32>>
\* str(e) of requests.exceptions.ConnectionError, in short: "Connection refused"
eConnectionRefused ==
  <<67, 111, 110, 110, 101, 99, 116, 105, 111, 110, 32, 114, 101, 102, 117, 115, 101, 100>>
\* str(e) of requests.exceptions.Timeout, in short: "Read timed out."
eReadTimedOut ==
  <<82, 101, 97, 100, 32, 116, 105, 109, 101, 100, 32, 111, 117, 116, 46>>
\* "/present-proof-2.0/records/"
pProofRecords ==
  <<47, 112, 114, 101, 115, 101, 110, 116, 45, 112, 114, 111, 111, 102, 45, 50, 46, 48, 47, 114, 101, 99, 111, 114, 100, 115, 47>>
\* "Error"
kErrorPrefix ==
  <<69, 114, 114, 111, 114>>

\* ------------------------------------------------------------------------
\* JSON values (what resp.json() / json.loads produce)
\* ------------------------------------------------------------------------
JStr(s) == [s |-> s, t |-> "str"]
JNum(n) == [t |-> "num", n |-> n]
JBool(b) == [t |-> "bool", b |-> b]
JNull == [t |-> "null"]
JList(xs) == [t |-> "list", xs |-> xs]
\* a dict: members in insertion order, keys unique
JObj(m) == [t |-> "obj", m |-> m]
Member(k, v) == [k |-> k, v |-> v]

IsObj(v) == v.t = "obj"

\* key in dict
HasKey(o, k) == \E i \in 1..Len(o.m) : o.m[i].k = k

\* dict[key]
Lookup(o, k) == o.m[CHOOSE i \in 1..Len(o.m) : o.m[i].k = k].v

\* dict.get(key, default)
Get(o, k, default) == IF HasKey(o, k) THEN Lookup(o, k) ELSE default

\* dict[key] = value : replaces in place, or appends
PutMember(m, k, v) ==
  IF \E i \in 1..Len(m) : m[i].k = k
    THEN [i \in 1..Len(m) |-> IF m[i].k = k THEN Member(k, v) ELSE m[i]]
    ELSE Append(m, Member(k, v))

\* Python truthiness of a JSON value (`if not x`)
Truthy(v) ==
  CASE v.t = "str" -> Len(v.s) > 0
    [] v.t = "num" -> v.n # 0
    [] v.t = "bool" -> v.b
    [] v.t = "null" -> FALSE
    [] v.t = "list" -> Len(v.xs) > 0
    [] v.t = "obj" -> Len(v.m) > 0

\* ------------------------------------------------------------------------
\* str methods
\* ------------------------------------------------------------------------
\* str.isspace() for one character (ASCII whitespace)
IsSpace(c) == c \in {9, 10, 11, 12, 13, 28, 29, 30, 31, 32}

\* the concatenation of a sequence of sequences (by halves, to keep the
\* evaluation shallow)
RECURSIVE ConcatRange(_, _, _)
ConcatRange(ss, lo, hi) ==
  IF lo > hi THEN <<>>
  ELSE IF lo = hi THEN ss[lo]
  ELSE ConcatRange(ss, lo, (lo + hi) \div 2) \o ConcatRange(ss, ((lo + hi) \div 2) + 1, hi)

Concat(ss) == ConcatRange(ss, 1, Len(ss))

Least(S) == CHOOSE x \in S : \A y \in S : x <= y

Greatest(S) == 0 - Least({0 - x : x \in S})

\* s without the trailing characters that belong to the set chars
RStripChars(s, chars) ==
  LET keep == {i \in 1..Len(s) : s[i] \notin chars}
  IN IF keep = {} THEN <<>> ELSE SubSeq(s, 1, Greatest(keep))

\* str.strip()
Strip(s) ==
  LET keep == {i \in 1..Len(s) : ~IsSpace(s[i])}
  IN IF keep = {} THEN <<>> ELSE SubSeq(s, Least(keep), Greatest(keep))

\* str.lower(), ASCII letters
Lower(s) == [i \in 1..Len(s) |-> IF s[i] \in 65..90 THEN s[i] + 32 ELSE s[i]]

\* the text with its padding left in place
RStripPad_kept(s) == s

\* str.rstrip("=")
RStripPad(s) == RStripChars(s, {61})

\* position of the first occurrence of needle in s at or after i, 0 if none
FindFrom(s, needle, i) ==
  LET hits == {j \in i..(Len(s) - Len(needle) + 1) :
                 SubSeq(s, j, j + Len(needle) - 1) = needle}
  IN IF hits = {} THEN 0 ELSE Least(hits)

\* needle in s
Contains(s, needle) == FindFrom(s, needle, 1) # 0

\* s.split(sep)
RECURSIVE Split(_, _)
Split(s, sep) ==
  LET p == FindFrom(s, sep, 1)
  IN IF p = 0 THEN <<s>>
     ELSE <<SubSeq(s, 1, p - 1)>> \o Split(SubSeq(s, p + Len(sep), Len(s)), sep)

\* ------------------------------------------------------------------------
\* json.dumps(v, separators=(',', ':')), ensure_ascii=True
\* ------------------------------------------------------------------------
HexDigit(d) == IF d < 10 THEN 48 + d ELSE 87 + d

Hex4(c) ==
  <<HexDigit((c \div 4096) % 16), HexDigit((c \div 256) % 16),
    HexDigit((c \div 16) % 16), HexDigit(c % 16)>>

\* one character inside a JSON string literal
EscapeChar(c) ==
  CASE c = 34 -> <<92, 34>>
    [] c = 92 -> <<92, 92>>
    [] c = 10 -> <<92, 110>>
    [] c = 13 -> <<92, 114>>
    [] c = 9 -> <<92, 116>>
    [] c = 8 -> <<92, 98>>
    [] c = 12 -> <<92, 102>>
    [] OTHER -> IF c < 32 \/ c > 126 THEN <<92, 117>> \o Hex4(c) ELSE <<c>>

EscapeAll(s) == Concat([i \in 1..Len(s) |-> EscapeChar(s[i])])

DumpsStr(s) == <<34>> \o EscapeAll(s) \o <<34>>

RECURSIVE Digits(_)
Digits(n) == IF n < 10 THEN <<48 + n>> ELSE Digits(n \div 10) \o <<48 + (n % 10)>>

DumpsNum(n) == IF n < 0 THEN <<45>> \o Digits(0 - n) ELSE Digits(n)

RECURSIVE Dumps(_)
DumpsItems(xs) ==
  Concat([i \in 1..Len(xs) |-> Dumps(xs[i]) \o (IF i < Len(xs) THEN <<44>> ELSE <<>>)])

DumpsMembers(m) ==
  Concat([i \in 1..Len(m) |->
            DumpsStr(m[i].k) \o <<58>> \o Dumps(m[i].v)
            \o (IF i < Len(m) THEN <<44>> ELSE <<>>)])

Dumps(v) ==
  CASE v.t = "str" -> DumpsStr(v.s)
    [] v.t = "num" -> DumpsNum(v.n)
    [] v.t = "bool" -> IF v.b THEN <<116, 114, 117, 101>> ELSE <<102, 97, 108, 115, 101>>
    [] v.t = "null" -> <<110, 117, 108, 108>>
    [] v.t = "list" -> <<91>> \o DumpsItems(v.xs) \o <<93>>
    [] v.t = "obj" -> <<123>> \o DumpsMembers(v.m) \o <<125>>

\* ------------------------------------------------------------------------
\* str.encode("utf-8") / bytes.decode("utf-8")
\* ------------------------------------------------------------------------
Utf8Char(c) ==
  IF c < 128 THEN <<c>>
  ELSE IF c < 2048 THEN <<192 + (c \div 64), 128 + (c % 64)>>
  ELSE <<224 + (c \div 4096), 128 + ((c \div 64) % 64), 128 + (c % 64)>>

Utf8Encode(s) == Concat([i \in 1..Len(s) |-> Utf8Char(s[i])])

\* the character that starts at byte i; nothing at a continuation byte
Utf8At(b, i) ==
  IF b[i] < 128 THEN <<b[i]>>
  ELSE IF b[i] < 192 THEN <<>>
  ELSE IF b[i] < 224 /\ i + 1 <= Len(b) THEN <<(b[i] - 192) * 64 + (b[i + 1] - 128)>>
  ELSE IF b[i] >= 224 /\ i + 2 <= Len(b)
    THEN <<(b[i] - 224) * 4096 + (b[i + 1] - 128) * 64 + (b[i + 2] - 128)>>
  ELSE <<65533>>

Utf8Decode(b) == Concat([i \in 1..Len(b) |-> Utf8At(b, i)])

\* ------------------------------------------------------------------------
\* base64.urlsafe_b64encode / base64.urlsafe_b64decode
\* ------------------------------------------------------------------------
\* the URL-safe alphabet: A-Z a-z 0-9 - _
B64Char(i) ==
  IF i < 26 THEN 65 + i
  ELSE IF i < 52 THEN 97 + (i - 26)
  ELSE IF i < 62 THEN 48 + (i - 52)
  ELSE IF i = 62 THEN 45 ELSE 95

\* base64.urlsafe_b64decode translates - and _ to + and / and decodes the
\* standard alphabet, so it reads both spellings of 62 and 63
IsB64Char(c) ==
  c \in 65..90 \/ c \in 97..122 \/ c \in 48..57 \/ c \in {45, 95, 43, 47}

B64Index(c) ==
  IF c \in 65..90 THEN c - 65
  ELSE IF c \in 97..122 THEN c - 97 + 26
  ELSE IF c \in 48..57 THEN c - 48 + 52
  ELSE IF c \in {45, 43} THEN 62 ELSE 63

\* one group of one, two or three bytes
B64Group(b) ==
  IF Len(b) = 1 THEN
    <<B64Char(b[1] \div 4), B64Char((b[1] % 4) * 16), 61, 61>>
  ELSE IF Len(b) = 2 THEN
    <<B64Char(b[1] \div 4), B64Char((b[1] % 4) * 16 + (b[2] \div 16)),
      B64Char((b[2] % 16) * 4), 61>>
  ELSE
    <<B64Char(b[1] \div 4), B64Char((b[1] % 4) * 16 + (b[2] \div 16)),
      B64Char((b[2] % 16) * 4 + (b[3] \div 64)), B64Char(b[3] % 64)>>

B64Encode(b) ==
  Concat([g \in 1..((Len(b) + 2) \div 3) |->
            B64Group(SubSeq(b, 3 * g - 2, IF 3 * g <= Len(b) THEN 3 * g ELSE Len(b)))])

\* the decoder discards characters outside the alphabet
B64Significant(s) == SelectSeq(s, LAMBDA c : IsB64Char(c) \/ c = 61)

\* the text has correct padding: a multiple of 4 characters, `=` only in the
\* last one or two places
B64WellFormed(s) ==
  /\ Len(s) % 4 = 0
  /\ \A i \in 1..Len(s) :
       s[i] = 61 => (i >= Len(s) - 1 /\ (i = Len(s) - 1 => s[Len(s)] = 61))

\* the bytes of one group of four characters
B64Quad(s) ==
  LET a == B64Index(s[1])
      b == B64Index(s[2])
      c == IF s[3] = 61 THEN 0 ELSE B64Index(s[3])
      d == IF s[4] = 61 THEN 0 ELSE B64Index(s[4])
      b1 == a * 4 + (b \div 16)
      b2 == (b % 16) * 16 + (c \div 4)
      b3 == (c % 4) * 64 + d
  IN IF s[3] = 61 THEN <<b1>>
     ELSE IF s[4] = 61 THEN <<b1, b2>>
     ELSE <<b1, b2, b3>>

B64DecodeQuads(s) ==
  Concat([q \in 1..(Len(s) \div 4) |-> B64Quad(SubSeq(s, 4 * q - 3, 4 * q))])

\* base64.urlsafe_b64decode(s): the bytes, or [ok |-> FALSE] for binascii.Error
B64Decode(s) ==
  IF B64WellFormed(B64Significant(s))
    THEN [v |-> B64DecodeQuads(B64Significant(s)), ok |-> TRUE]
    ELSE [ok |-> FALSE]

\* ------------------------------------------------------------------------
\* json.loads
\* ------------------------------------------------------------------------
ParseFail == [ok |-> FALSE]
ParseOk(v, i) == [v |-> v, i |-> i, ok |-> TRUE]

RECURSIVE SkipWs(_, _)
SkipWs(s, i) == IF i <= Len(s) /\ s[i] \in {32, 9, 10, 13} THEN SkipWs(s, i + 1) ELSE i

IsHex(c) == c \in 48..57 \/ c \in 97..102 \/ c \in 65..70

HexVal(c) == IF c \in 48..57 THEN c - 48 ELSE IF c \in 97..102 THEN c - 87 ELSE c - 55

\* the number of backslashes right before position j, counted back to i
BackslashRun(s, i, j) ==
  IF j <= i \/ s[j - 1] # 92 THEN 0
  ELSE Least({k \in 1..(j - i) : j - 1 - k < i \/ s[j - 1 - k] # 92})

\* position p starts an escape sequence of the literal that begins at i
EscapeStart(s, i, p) == s[p] = 92 /\ BackslashRun(s, i, p) % 2 = 0

\* the escape sequence that starts at p, inside a literal that ends before e, is valid
EscapeValid(s, p, e) ==
  /\ p + 1 < e
  /\ s[p + 1] \in {34, 92, 47, 98, 102, 110, 114, 116, 117}
  /\ s[p + 1] = 117 => (p + 5 < e /\ \A j \in (p + 2)..(p + 5) : IsHex(s[j]))

\* the character an escape sequence stands for
EscapeValue(s, p) ==
  LET c == s[p + 1]
  IN CASE c = 98 -> 8
       [] c = 102 -> 12
       [] c = 110 -> 10
       [] c = 114 -> 13
       [] c = 116 -> 9
       [] c = 117 -> HexVal(s[p + 2]) * 4096 + HexVal(s[p + 3]) * 256
                     + HexVal(s[p + 4]) * 16 + HexVal(s[p + 5])
       [] OTHER -> c

\* position p belongs to an escape sequence that started before it
InsideEscape(s, i, p) ==
  \/ p > i /\ EscapeStart(s, i, p - 1)
  \/ \E q \in (p - 5)..(p - 2) : q >= i /\ EscapeStart(s, i, q) /\ s[q + 1] = 117

\* the characters of a string literal, from position i (after the opening
\* quote) to its closing quote
ParseChars(s, i, acc) ==
  LET closing == {j \in i..Len(s) : s[j] = 34 /\ BackslashRun(s, i, j) % 2 = 0}
      e == Least(closing)
  IN IF closing = {} THEN ParseFail
     ELSE IF \E p \in i..(e - 1) :
               \/ EscapeStart(s, i, p) /\ ~EscapeValid(s, p, e)
               \/ ~EscapeStart(s, i, p) /\ ~InsideEscape(s, i, p) /\ s[p] < 32
       THEN ParseFail
     ELSE ParseOk(acc \o Concat([n \in 1..(e - i) |->
                    LET p == i + n - 1
                    IN IF EscapeStart(s, i, p) THEN <<EscapeValue(s, p)>>
                       ELSE IF InsideEscape(s, i, p) THEN <<>>
                       ELSE <<s[p]>>]),
                  e + 1)

RECURSIVE ParseDigits(_, _, _)
ParseDigits(s, i, acc) ==
  IF i <= Len(s) /\ s[i] \in 48..57
    THEN ParseDigits(s, i + 1, acc * 10 + (s[i] - 48))
    ELSE ParseOk(acc, i)

\* an integer literal (the model's numbers are integers)
ParseNumber(s, i) ==
  LET neg == s[i] = 45
      j == IF neg THEN i + 1 ELSE i
  IN IF j > Len(s) \/ s[j] \notin 48..57 THEN ParseFail
     ELSE IF s[j] = 48 /\ j + 1 <= Len(s) /\ s[j + 1] \in 48..57 THEN ParseFail
     ELSE LET r == ParseDigits(s, j, 0)
          IN ParseOk(JNum(IF neg THEN 0 - r.v ELSE r.v), r.i)

StartsAt(s, i, w) == i + Len(w) - 1 <= Len(s) /\ SubSeq(s, i, i + Len(w) - 1) = w

RECURSIVE ParseValue(_, _)
RECURSIVE ParseItems(_, _, _)
RECURSIVE ParseMembers(_, _, _)
\* after `[` or after a `,` : the next item, then `,` or `]`
ParseItems(s, i, acc) ==
  LET r == ParseValue(s, SkipWs(s, i))
  IN IF ~r.ok THEN ParseFail
     ELSE LET j == SkipWs(s, r.i)
          IN IF j > Len(s) THEN ParseFail
             ELSE IF s[j] = 44 THEN ParseItems(s, j + 1, Append(acc, r.v))
             ELSE IF s[j] = 93 THEN ParseOk(JList(Append(acc, r.v)), j + 1)
             ELSE ParseFail

\* after `{` or after a `,` : "key" : value, then `,` or `}`
ParseMembers(s, i, acc) ==
  LET k0 == SkipWs(s, i)
  IN IF k0 > Len(s) \/ s[k0] # 34 THEN ParseFail
     ELSE LET k == ParseChars(s, k0 + 1, <<>>)
          IN IF ~k.ok THEN ParseFail
             ELSE LET c == SkipWs(s, k.i)
                  IN IF c > Len(s) \/ s[c] # 58 THEN ParseFail
                     ELSE LET r == ParseValue(s, SkipWs(s, c + 1))
                          IN IF ~r.ok THEN ParseFail
                             ELSE LET j == SkipWs(s, r.i)
                                      m == PutMember(acc, k.v, r.v)
                                  IN IF j > Len(s) THEN ParseFail
                                     ELSE IF s[j] = 44 THEN ParseMembers(s, j + 1, m)
                                     ELSE IF s[j] = 125 THEN ParseOk(JObj(m), j + 1)
                                     ELSE ParseFail

ParseValue(s, i) ==
  IF i > Len(s) THEN ParseFail
  ELSE
    CASE s[i] = 34 ->
           LET r == ParseChars(s, i + 1, <<>>)
           IN IF r.ok THEN ParseOk(JStr(r.v), r.i) ELSE ParseFail
      [] s[i] = 123 ->
           LET j == SkipWs(s, i + 1)
           IN IF j <= Len(s) /\ s[j] = 125 THEN ParseOk(JObj(<<>>), j + 1)
              ELSE ParseMembers(s, i + 1, <<>>)
      [] s[i] = 91 ->
           LET j == SkipWs(s, i + 1)
           IN IF j <= Len(s) /\ s[j] = 93 THEN ParseOk(JList(<<>>), j + 1)
              ELSE ParseItems(s, i + 1, <<>>)
      [] s[i] = 45 \/ s[i] \in 48..57 -> ParseNumber(s, i)
      [] StartsAt(s, i, <<116, 114, 117, 101>>) -> ParseOk(JBool(TRUE), i + 4)
      [] StartsAt(s, i, <<102, 97, 108, 115, 101>>) -> ParseOk(JBool(FALSE), i + 5)
      [] StartsAt(s, i, <<110, 117, 108, 108>>) -> ParseOk(JNull, i + 4)
      [] OTHER -> ParseFail

\* json.loads(text): [ok |-> TRUE, v |-> value], or [ok |-> FALSE] when it raises
Loads(s) ==
  LET r == ParseValue(s, SkipWs(s, 1))
  IN IF r.ok /\ SkipWs(s, r.i) = Len(s) + 1 THEN [v |-> r.v, ok |-> TRUE] ELSE ParseFail

\* ------------------------------------------------------------------------
\* json.dumps(v, indent=2)
\* ------------------------------------------------------------------------
Indent(level) == [i \in 1..(2 * level) |-> 32]

RECURSIVE DumpsIndent(_, _)
IndentItems(xs, level) ==
  Concat([i \in 1..Len(xs) |->
            <<10>> \o Indent(level) \o DumpsIndent(xs[i], level)
            \o (IF i < Len(xs) THEN <<44>> ELSE <<>>)])

IndentMembers(m, level) ==
  Concat([i \in 1..Len(m) |->
            <<10>> \o Indent(level) \o DumpsStr(m[i].k) \o <<58, 32>>
            \o DumpsIndent(m[i].v, level)
            \o (IF i < Len(m) THEN <<44>> ELSE <<>>)])

DumpsIndent(v, level) ==
  CASE v.t = "list" ->
         IF v.xs = <<>> THEN <<91, 93>>
         ELSE <<91>> \o IndentItems(v.xs, level + 1) \o <<10>> \o Indent(level) \o <<93>>
    [] v.t = "obj" ->
         IF v.m = <<>> THEN <<123, 125>>
         ELSE <<123>> \o IndentMembers(v.m, level + 1) \o <<10>> \o Indent(level) \o <<125>>
    [] OTHER -> Dumps(v)

\* ------------------------------------------------------------------------
\* The inverse of the invitation encoder (test_create_out_of_band_invitation)
\* ------------------------------------------------------------------------
\* padding = "=" * ((4 - len(encoded_invitation) % 4) % 4)
Padding(encoded) == [i \in 1..((4 - (Len(encoded) % 4)) % 4) |-> 61]

\* split at "?oob=", re-pad, base64url-decode, decode UTF-8, json.loads:
\* [ok |-> TRUE, v |-> invitation], or [ok |-> FALSE] when a step fails
decode_connection_url(url) ==
  LET query_split == Split(url, kOob)
  IN IF Len(query_split) # 2 THEN ParseFail
     ELSE LET decoded_bytes == B64Decode(query_split[2] \o Padding(query_split[2]))
          IN IF ~decoded_bytes.ok THEN ParseFail ELSE Loads(Utf8Decode(decoded_bytes.v))

\* ------------------------------------------------------------------------
\* The four tool modules
\* ------------------------------------------------------------------------
\* mcp_tools/traction_api_tool.py
TractionTool == "mcp_tools/traction_api_tool"
\* tools/traction_api.py
TractionApi == "tools/traction_api"
\* acapy_api_tool.py
AcapyTool == "acapy_api_tool"
\* mcp_tools/acapy_api_tool.py
McpAcapyTool == "mcp_tools/acapy_api_tool"

Modules == {TractionTool, TractionApi, AcapyTool, McpAcapyTool}

\* bcovrin_query_server.py, whose one tool calls requests.get itself
BcovrinServer == "bcovrin_query_server"

\* aiohttp.ClientTimeout(total=10), in seconds
HTTP_TIMEOUT == 10

\* the timeout the module gives its ClientSession; 0: the module gives none
SessionTimeout(m) == IF m \in {TractionTool, TractionApi} THEN HTTP_TIMEOUT ELSE 0

\* the name `<X>_BASE_URL` that http_request reads is defined in the module
\* (mcp_tools/acapy_api_tool.py defines TRACTION_BASE_URL and reads ACAPY_BASE_URL)
BaseUrlDefined(m) == m # McpAcapyTool

BaseUrl(m) == IF m = AcapyTool THEN ACAPY_BASE_URL ELSE TRACTION_BASE_URL

\* str.rstrip("/")
RStripSlash(s) == RStripChars(s, {47})

\* ------------------------------------------------------------------------
\* What a coroutine does next: return, raise, or await an HTTP request
\* ------------------------------------------------------------------------
Ret(v) == [k |-> "return", v |-> v]
Raise(e) == [k |-> "raise", exc |-> e]
Await(req, l) == [k |-> "await", req |-> req, loc |-> l]

\* a returned str: plain text, or json.dumps(v, indent=2)
Text(s) == [s |-> s, t |-> "text"]
Pretty(v) == [t |-> "pretty", v |-> v]

\* ------------------------------------------------------------------------
\* http_request
\* ------------------------------------------------------------------------
HttpMethods == {mGet, mPost, mPut, mDelete}

\* session.get(url, params=payload): the query parameters of the request
session_params(method, payload) == IF Lower(method) = mGet THEN payload ELSE JNull

\* json=payload on every method, session.get included
session_json_on_get(method, payload) == payload

\* session.post / put / delete(url, json=payload): the JSON body of the request
session_json(method, payload) == IF Lower(method) = mGet THEN JNull ELSE payload

\* http_request as it would be with a generic session.request(method, ...)
\* in place of the if/elif chain and its final else
http_request_send_any_method(m, method, path, payload, headers) ==
  IF ~BaseUrlDefined(m) THEN Raise("NameError")
  ELSE [k |-> "send",
        req |-> [url |-> RStripSlash(BaseUrl(m)) \o path,
                 method |-> Lower(method),
                 headers |-> IF m \in {TractionTool, TractionApi} THEN headers ELSE JNull,
                 params |-> session_params(method, payload),
                 json |-> session_json(method, payload),
                 timeout |-> SessionTimeout(m)]]

\* http_request up to the point where the request is on the wire:
\* the request it sends, or the exception it raises before sending
http_request_send(m, method, path, payload, headers) ==
  IF ~BaseUrlDefined(m) THEN Raise("NameError")
  ELSE IF Lower(method) \notin HttpMethods THEN Raise("ValueError")
  ELSE [k |-> "send",
        req |-> [url |-> RStripSlash(BaseUrl(m)) \o path,
                 method |-> Lower(method),
                 headers |-> IF m \in {TractionTool, TractionApi} THEN headers ELSE JNull,
                 params |-> session_params(method, payload),
                 json |-> session_json(method, payload),
                 timeout |-> SessionTimeout(m)]]

\* the statuses the module's http_request takes for success
SuccessStatuses(m, method) ==
  IF m = TractionTool THEN (IF method = mPost THEN {200, 201} ELSE {200})
  ELSE IF m = TractionApi THEN {200, 201}
  ELSE 0..999

\* await resp.json()
RespJson(resp) ==
  LET r == Loads(resp.body)
  IN IF r.ok THEN Ret(r.v) ELSE Raise("JSONDecodeError")

\* http_request from the point where the agent's answer, or none, is in:
\* ev is a response [k |-> "resp", status, body], a refused connection, the
\* expiry of the session timeout, or the cancellation of the awaiting task
http_request_recv(m, method, ev) ==
  IF ev.k = "refused" THEN Raise("ClientConnectorError")
  ELSE IF ev.k = "timeout" THEN Raise("TimeoutError")
  ELSE IF ev.k = "cancelled" THEN Raise("CancelledError")
  ELSE IF ev.status \notin SuccessStatuses(m, method)
    THEN Ret(JObj(<<Member(kError, JStr(ev.body)), Member(kStatus, JNum(ev.status))>>))
  ELSE RespJson(ev)

\* ------------------------------------------------------------------------
\* State
\* ------------------------------------------------------------------------
VARIABLES
  TENANT_ID,  \* tools/traction_api.py: os.getenv("TENANT_ID", "").strip()
  API_KEY,    \* tools/traction_api.py: os.getenv("API_KEY", "").strip()
  module,     \* the module of the tool call in progress (or last finished)
  tool,       \* its name
  args,       \* its arguments
  pc,         \* "idle": no call yet, "wait": suspended in http_request, "done"
  loc,        \* the coroutine's local variables while it is suspended
  sent,       \* the HTTP requests the call has put on the wire, in order
  recv,       \* what came back for each: a response, "refused", "timeout", "cancelled"
  elapsed,    \* seconds since the pending request went out
  outcome,    \* [k |-> "none"], Ret(string) or Raise(exception)
  calls,      \* the tool calls the event loop runs side by side, by caller
  sessions    \* the number of client sessions (aiohttp.ClientSession, or the
              \* Session inside requests.get) that are open

vars ==
  <<TENANT_ID, API_KEY, module, tool, args, pc, loc, sent, recv, elapsed, outcome, calls,
    sessions>>

NoOutcome == [k |-> "none"]

\* the request the call is suspended on
Pending == sent[Len(sent)]

\* all strings over an alphabet, up to length n
RECURSIVE StrsUpTo(_, _)
StrsUpTo(alpha, n) ==
  IF n = 0 THEN {<<>>}
  ELSE LET shorter == StrsUpTo(alpha, n - 1)
       IN shorter \cup {Append(s, c) : s \in {x \in shorter : Len(x) = n - 1}, c \in alpha}

\* the exit of `async with aiohttp.ClientSession(...) as session`, left by a
\* return, by an exception, or by the cancellation of the task, when a
\* session would be closed only on the way to the return statement
session_exit_on_return(open, how) == IF how = "return" THEN open - 1 ELSE open

\* the exit of `async with aiohttp.ClientSession(...) as session`: __aexit__
\* closes the session however the block is left
session_exit(open, how) == open - 1

\* the open sessions after a coroutine ran to `next`: an await inside
\* http_request leaves its session open; the ValueError for an unsupported
\* method is raised inside the `async with` block, which then exits
RunsTo(open, next) ==
  IF next.k = "await" THEN open + 1
  ELSE IF next.k = "raise" /\ next.exc = "ValueError" THEN session_exit(open + 1, "raise")
  ELSE open

\* how http_request leaves its `async with` block on event ev
LeavesBy(m, method, ev) ==
  IF ev.k = "cancelled" THEN "cancel" ELSE http_request_recv(m, method, ev).k

\* a tool is called: it runs to its first await, or to its end
Begin(m, t, a, next) ==
  /\ pc = "idle"
  /\ module' = m
  /\ tool' = t
  /\ args' = a
  /\ recv' = <<>>
  /\ elapsed' = 0
  /\ UNCHANGED <<TENANT_ID, API_KEY, calls>>
  /\ sessions' = RunsTo(sessions, next)
  /\ IF next.k = "await"
       THEN /\ pc' = "wait"
            /\ loc' = next.loc
            /\ sent' = <<next.req>>
            /\ outcome' = NoOutcome
       ELSE /\ pc' = "done"
            /\ loc' = [at |-> 0]
            /\ sent' = <<>>
            /\ outcome' = next

\* the suspended coroutine is resumed with what http_request gives it
Continue(next) ==
  /\ UNCHANGED <<TENANT_ID, API_KEY, module, tool, args, recv, elapsed, calls>>
  /\ IF next.k = "await"
       THEN /\ pc' = "wait"
            /\ loc' = next.loc
            /\ sent' = Append(sent, next.req)
            /\ outcome' = NoOutcome
       ELSE /\ pc' = "done"
            /\ outcome' = next
            /\ UNCHANGED <<loc, sent>>

\* await http_request(...) inside a tool: suspend, or raise at once
AwaitRequest(m, method, path, payload, headers, l) ==
  LET s == http_request_send(m, method, path, payload, headers)
  IN IF s.k = "send" THEN Await(s.req, l) ELSE s

\* ------------------------------------------------------------------------
\* Python helpers used by the tools
\* ------------------------------------------------------------------------
\* return json.dumps(result): the JSON on one line, without indent=2
DumpResult_compact(r) == IF r.k = "raise" THEN r ELSE Ret(Text(Dumps(r.v)))

\* return json.dumps(result, indent=2), where result = await http_request(...)
DumpResult(r) == IF r.k = "raise" THEN r ELSE Ret(Pretty(r.v))

\* f"{v}" for the values the tools interpolate into paths and headers
FormatValue(v) ==
  CASE v.t = "str" -> v.s
    [] v.t = "num" -> DumpsNum(v.n)
    [] v.t = "bool" -> IF v.b THEN <<84, 114, 117, 101>> ELSE <<70, 97, 108, 115, 101>>
    [] v.t = "null" -> <<78, 111, 110, 101>>
    [] OTHER -> Dumps(v)

\* `for x in v` is possible
Iterable(v) == v.t \in {"list", "obj", "str"}

\* the elements `for x in v` yields
Items(v) ==
  CASE v.t = "list" -> v.xs
    [] v.t = "obj" -> [i \in 1..Len(v.m) |-> JStr(v.m[i].k)]
    [] v.t = "str" -> [i \in 1..Len(v.s) |-> JStr(<<v.s[i]>>)]

\* `k in v` for a str k; only evaluated when v is a dict, list or str
InValue(k, v) ==
  CASE v.t = "obj" -> HasKey(v, k)
    [] v.t = "list" -> \E i \in 1..Len(v.xs) : v.xs[i] = JStr(k)
    [] v.t = "str" -> Contains(v.s, k)

\* ------------------------------------------------------------------------
\* acapy_api_tool.py
\* ------------------------------------------------------------------------
\* query_connections()
query_connections(m) ==
  AwaitRequest(m, mGet, pConnections, JNull, JNull, [at |-> 1])

\* get_public_did()
get_public_did(m) ==
  AwaitRequest(m, mGet, pPublicDid, JNull, JNull, [at |-> 1])

\* get_proof_record(pres_ex_id)
get_proof_record(a) ==
  AwaitRequest(AcapyTool, mGet, pProofRecords \o a.pres_ex_id, JNull, JNull, [at |-> 1])

\* send_message as it would be with `if not conn_id` / `if not content`,
\* that is, without strip()
send_message_unstripped(a) ==
  IF a.conn_id = <<>> THEN Ret(Text(eConnIdRequired))
  ELSE IF a.content = <<>> THEN Ret(Text(eContentRequired))
  ELSE AwaitRequest(AcapyTool, mPost, pConnectionsSlash \o a.conn_id \o pSendMessage,
                    JObj(<<Member(kContent, JStr(a.content))>>), JNull, [at |-> 1])

\* send_message(conn_id, content): validation, then the POST
send_message(a) ==
  IF Strip(a.conn_id) = <<>> THEN Ret(Text(eConnIdRequired))
  ELSE IF Strip(a.content) = <<>> THEN Ret(Text(eContentRequired))
  ELSE AwaitRequest(AcapyTool, mPost, pConnectionsSlash \o a.conn_id \o pSendMessage,
                    JObj(<<Member(kContent, JStr(a.content))>>), JNull, [at |-> 1])

\* conn.get("their_label", "").lower() can be evaluated
LabelOk(conn) == IsObj(conn) /\ Get(conn, kTheirLabel, JStr(<<>>)).t = "str"

\* [conn for conn in connections]: the comprehension without its condition
AliasMatches_all(conns, alias) == conns

\* [conn for conn in connections if conn.get("their_label", "").lower() == alias.lower()]
AliasMatches(conns, alias) ==
  SelectSeq(conns, LAMBDA conn : Lower(Get(conn, kTheirLabel, JStr(<<>>)).s) = Lower(alias))

\* send_message_by_alias: the for loop over matches from index i, up to its
\* next await or, past the last match, the return
RECURSIVE AliasLoop(_, _, _, _)
AliasLoop(a, matches, i, results) ==
  IF i > Len(matches) THEN Ret(Pretty(JList(results)))
  ELSE
    LET conn == matches[i]
        conn_id == Get(conn, kConnectionId, JNull)
    IN IF ~Truthy(conn_id)
         THEN AliasLoop(a, matches, i + 1,
                Append(results, JObj(<<Member(kError, JStr(eMissingConnId)),
                                       Member(kConnection, conn)>>)))
         ELSE AwaitRequest(AcapyTool, mPost,
                pConnectionsSlash \o FormatValue(conn_id) \o pSendMessage,
                JObj(<<Member(kContent, JStr(a.content))>>), JNull,
                [i |-> i, at |-> 2, matches |-> matches, results |-> results])

\* send_message_by_alias(alias, content): starts with GET /connections
send_message_by_alias(a) ==
  AwaitRequest(AcapyTool, mGet, pConnections, JNull, JNull, [at |-> 1])

\* send_message_by_alias resumed with r, the outcome of the awaited http_request
send_message_by_alias_resume(a, l, r) ==
  IF r.k = "raise" THEN r
  ELSE IF l.at = 1 THEN
    IF ~IsObj(r.v) THEN Raise("AttributeError")
    ELSE
      LET connections == Get(r.v, kResults, JList(<<>>))
      IN IF ~Iterable(connections) THEN Raise("TypeError")
         ELSE IF \E i \in 1..Len(Items(connections)) : ~LabelOk(Items(connections)[i])
           THEN Raise("AttributeError")
         ELSE
           LET matches == AliasMatches(Items(connections), a.alias)
           IN IF matches = <<>>
                THEN Ret(Pretty(JObj(<<Member(kError,
                       JStr(eNoConnWithAlias \o a.alias \o <<39>>))>>)))
                ELSE AliasLoop(a, matches, 1, <<>>)
  ELSE
    AliasLoop(a, l.matches, l.i + 1,
      Append(l.results,
        JObj(<<Member(kConnectionId, Get(l.matches[l.i], kConnectionId, JNull)),
               Member(kResult, r.v)>>)))

\* query_connection_by_alias(alias): GET /connections
query_connection_by_alias(a) ==
  AwaitRequest(AcapyTool, mGet, pConnections, JNull, JNull, [at |-> 1])

\* query_connection_by_alias resumed with r, the outcome of the awaited http_request
query_connection_by_alias_resume(a, l, r) ==
  IF r.k = "raise" THEN r
  ELSE IF ~IsObj(r.v) THEN Raise("AttributeError")
  ELSE
    LET connections == Get(r.v, kResults, JList(<<>>))
    IN IF ~Iterable(connections) THEN Raise("TypeError")
       ELSE IF \E i \in 1..Len(Items(connections)) : ~LabelOk(Items(connections)[i])
         THEN Raise("AttributeError")
       ELSE
         LET matches == AliasMatches(Items(connections), a.alias)
         IN IF matches = <<>>
              THEN Ret(Pretty(JObj(<<Member(kError,
                     JStr(eNoConnWithAlias \o a.alias \o <<39>>))>>)))
              ELSE Ret(Pretty(JList(matches)))

\* the text of the exception json.loads raises
JsonErrorText == <<69, 120, 112, 101, 99, 116, 105, 110, 103, 32, 118, 97, 108, 117, 101>>

\* issue_dynamic_credential(credential_attributes): input check, then GET public DID
issue_dynamic_credential(a) ==
  LET ca == a.credential_attributes
  IN IF ca.t = "str" /\ ~Loads(ca.s).ok THEN Ret(Text(eInvalidAttrsJson \o JsonErrorText))
     ELSE IF ca.t \notin {"str", "list"} THEN Ret(Text(eInvalidInputType))
     ELSE AwaitRequest(AcapyTool, mGet, pPublicDid, JNull, JNull,
            [at |-> 1, attributes |-> IF ca.t = "str" THEN Loads(ca.s).v ELSE ca])

\* cred_defs[-1]: the last element in place of the first
FirstOf_last(v) ==
  CASE v.t = "list" -> Ret(v.xs[Len(v.xs)])
    [] v.t = "str" -> Ret(JStr(<<v.s[Len(v.s)]>>))
    [] v.t = "obj" -> Raise("KeyError")
    [] OTHER -> Raise("TypeError")

\* cred_defs[0]
FirstOf(v) ==
  CASE v.t = "list" -> Ret(v.xs[1])
    [] v.t = "str" -> Ret(JStr(<<v.s[1]>>))
    [] v.t = "obj" -> Raise("KeyError")
    [] OTHER -> Raise("TypeError")

\* the credential offer issue_dynamic_credential posts
credential_offer_payload(connection_id, issuer_did, schema_id, cred_def_id, attributes) ==
  JObj(<<Member(kConnectionId, connection_id),
         Member(kIssuerDid, issuer_did),
         Member(kSchemaId, schema_id),
         Member(kCredDefId, cred_def_id),
         Member(kCredentialPreview,
           JObj(<<Member(kType, JStr(kPreviewType)), Member(kAttributes, attributes)>>)),
         Member(kAutoIssue, JBool(TRUE))>>)

\* issue_dynamic_credential resumed with r, the outcome of the awaited http_request
issue_dynamic_credential_resume(a, l, r) ==
  IF r.k = "raise" THEN r
  ELSE IF l.at = 1 THEN
    \* public_did_resp.get("result", {}).get("did", "")
    IF ~IsObj(r.v) \/ ~IsObj(Get(r.v, kResult, JObj(<<>>))) THEN Raise("AttributeError")
    ELSE
      LET issuer_did == Get(Get(r.v, kResult, JObj(<<>>)), kDid, JStr(<<>>))
      IN IF ~Truthy(issuer_did) THEN Ret(Text(eNoPublicDid))
         ELSE AwaitRequest(AcapyTool, mGet, pConnections, JNull, JNull,
                [at |-> 2, attributes |-> l.attributes, issuer_did |-> issuer_did])
  ELSE IF l.at = 2 THEN
    IF ~IsObj(r.v) THEN Raise("AttributeError")
    ELSE
      LET connections == Get(r.v, kResults, JList(<<>>))
      IN IF ~Iterable(connections) THEN Raise("TypeError")
         ELSE IF \E i \in 1..Len(Items(connections)) : ~IsObj(Items(connections)[i])
           THEN Raise("AttributeError")
         ELSE
           LET active_connections ==
                 SelectSeq(Items(connections),
                           LAMBDA conn : Get(conn, kState, JNull) = JStr(kActive))
           IN IF active_connections = <<>> THEN Ret(Text(eNoActiveConnections))
              ELSE AwaitRequest(AcapyTool, mGet, pCredDefsCreated, JNull, JNull,
                     [at |-> 3, attributes |-> l.attributes,
                      connection_id |-> Get(active_connections[1], kConnectionId, JNull),
                      issuer_did |-> l.issuer_did])
  ELSE IF l.at = 3 THEN
    IF ~IsObj(r.v) THEN Raise("AttributeError")
    ELSE
      LET cred_defs == Get(r.v, kCredDefIds, JList(<<>>))
      IN IF ~Truthy(cred_defs) THEN Ret(Text(eNoCredDefs))
         ELSE IF FirstOf(cred_defs).k = "raise" THEN FirstOf(cred_defs)
         ELSE AwaitRequest(AcapyTool, mPost, pIssueSend,
                credential_offer_payload(l.connection_id, l.issuer_did,
                  JStr(PLACEHOLDER_SCHEMA_ID), FirstOf(cred_defs).v, l.attributes),
                JNull, [at |-> 4])
  ELSE Ret(Pretty(r.v))

\* ------------------------------------------------------------------------
\* mcp_tools/acapy_api_tool.py
\* ------------------------------------------------------------------------
\* get_status()
get_status(m) ==
  AwaitRequest(m, mGet, pStatus, JNull, JNull, [at |-> 1])

\* send_basic_message(conn_id, content)
send_basic_message(a) ==
  IF Strip(a.conn_id) = <<>> THEN Ret(Text(eBasicConnIdRequired))
  ELSE IF Strip(a.content) = <<>> THEN Ret(Text(eBasicContentRequired))
  ELSE AwaitRequest(McpAcapyTool, mPost, pConnectionsSlash \o a.conn_id \o pSendMessage,
                    JObj(<<Member(kContent, JStr(a.content))>>), JNull, [at |-> 1])

\* ------------------------------------------------------------------------
\* The tools that take a JSON text: try: payload = json.loads(text)
\* except Exception as e: return f"<prefix>{e}"; then POST payload to path
\* ------------------------------------------------------------------------
\* the tool without its try/except: the text goes out as it came in
post_json_argument_unparsed(m, text, prefix, path) ==
  AwaitRequest(m, mPost, path, JStr(text), JNull, [at |-> 1])

\* try/except around json.loads, then the POST
post_json_argument(m, text, prefix, path) ==
  IF ~Loads(text).ok THEN Ret(Text(prefix \o JsonErrorText))
  ELSE AwaitRequest(m, mPost, path, Loads(text).v, JNull, [at |-> 1])

\* acapy_api_tool.py receive_invitation(invitation)
receive_invitation(a) ==
  post_json_argument(AcapyTool, a.invitation, eInvalidInvitation, pReceiveInvitation)

\* acapy_api_tool.py issue_credential(credential_offer);
\* mcp_tools/acapy_api_tool.py issue_credential(cred_ex_id, payload)
issue_credential(m, a) ==
  IF m = AcapyTool
    THEN post_json_argument(m, a.credential_offer, eInvalidOffer, pIssueSend)
    ELSE post_json_argument(m, a.payload, eInvalidPayload, pRecords \o a.cred_ex_id \o pIssue)

\* acapy_api_tool.py send_proof_request(proof_request)
send_proof_request(a) ==
  post_json_argument(AcapyTool, a.proof_request, eInvalidProofRequest, pProofSendRequest)

\* mcp_tools/acapy_api_tool.py send_proof_request_v2(proof_request)
send_proof_request_v2(a) ==
  post_json_argument(McpAcapyTool, a.proof_request, eInvalidProofRequest, pProofSendRequest)

\* mcp_tools/acapy_api_tool.py send_credential_offer(payload)
send_credential_offer(a) ==
  post_json_argument(McpAcapyTool, a.payload, eInvalidPayload, pSendOffer)

\* mcp_tools/acapy_api_tool.py send_credential_request(cred_ex_id, payload)
send_credential_request(a) ==
  post_json_argument(McpAcapyTool, a.payload, eInvalidPayload,
                     pRecords \o a.cred_ex_id \o pSendRequest)

\* mcp_tools/acapy_api_tool.py store_credential(cred_ex_id, payload)
store_credential(a) ==
  post_json_argument(McpAcapyTool, a.payload, eInvalidPayload,
                     pRecords \o a.cred_ex_id \o pStore)

\* mcp_tools/acapy_api_tool.py ledger_register_did(did_info)
ledger_register_did(a) ==
  post_json_argument(McpAcapyTool, a.did_info, eInvalidDidInfo, pRegisterNym)

\* mcp_tools/acapy_api_tool.py create_oob_invitation(payload): after the
\* parse the tool builds its URL from ACAPY_BASE_URL, a name the module does
\* not define, before it opens the session it would post through
create_oob_invitation(a) ==
  IF ~Loads(a.payload).ok THEN Ret(Text(eInvalidPayload \o JsonErrorText))
  ELSE Raise("NameError")

\* ------------------------------------------------------------------------
\* mcp_tools/traction_api_tool.py and tools/traction_api.py
\* ------------------------------------------------------------------------
\* a returned value that is not a str (a non-str `token` field, http_request's dict)
Value(v) == [t |-> "value", v |-> v]

\* f"{x}" of a value a coroutine returned
FormatReturn(x) == IF x.t = "text" THEN x.s ELSE FormatValue(x.v)

\* get_bearer_token after its POST: token = result.get("token", "") ...
bearer_token_result(r) ==
  IF r.k = "raise" THEN r
  ELSE IF ~IsObj(r.v) THEN Raise("AttributeError")
  ELSE
    LET token == Get(r.v, kToken, JStr(<<>>))
    IN IF ~Truthy(token) THEN Ret(Text(eNoToken))
       ELSE Ret(IF token.t = "str" THEN Text(token.s) ELSE Value(token))

\* path = f"/multitenancy/tenant/{tenant_id}/token"
TokenPath(tenant_id) == pTenantTokenPre \o tenant_id \o pTenantTokenPost

\* mcp_tools/traction_api_tool.py get_bearer_token(tenant_id, api_key)
get_bearer_token(a) ==
  AwaitRequest(TractionTool, mPost, TokenPath(a.tenant_id),
               JObj(<<Member(kApiKey, JStr(a.api_key))>>), JNull, [at |-> 1])

\* tools/traction_api.py get_bearer_token(): the configuration check and the POST
api_get_bearer_token(l) ==
  IF TENANT_ID = <<>> \/ API_KEY = <<>> THEN Ret(Text(eMissingConfig))
  ELSE AwaitRequest(TractionApi, mPost, TokenPath(TENANT_ID),
                    JObj(<<Member(kApiKey, JStr(API_KEY))>>),
                    JObj(<<Member(kContentType, JStr(kApplicationJson))>>), l)

\* headers = {"Authorization": f"Bearer {token}"}
AuthHeader(token) == Member(kAuthorization, JStr(kBearer \o token))

\* get_tenant_details: the GET it sends once it has the token
tenant_details_get(m, token) ==
  AwaitRequest(m, mGet, pTenant, JNull, JObj(<<AuthHeader(token)>>), [at |-> 2])

\* get_tenant_details(token) of mcp_tools/traction_api_tool.py;
\* get_tenant_details() of tools/traction_api.py, which fetches the token itself
get_tenant_details(m, a) ==
  IF m = TractionTool THEN tenant_details_get(m, a.token)
  ELSE LET t == api_get_bearer_token([at |-> 1])
       IN IF t.k = "await" THEN t ELSE tenant_details_get(m, FormatReturn(t.v))

\* get_tenant_details resumed with r, the outcome of the awaited http_request
get_tenant_details_resume(m, a, l, r) ==
  IF l.at = 1 THEN
    LET t == bearer_token_result(r)
    IN IF t.k = "raise" THEN t ELSE tenant_details_get(m, FormatReturn(t.v))
  ELSE DumpResult(r)

\* list_connections: the params dict, in the order the code writes it
ListParams(a) ==
  <<Member(kAlias, a.alias),
    Member(kConnectionProtocol, a.connection_protocol),
    Member(kInvitationKey, a.invitation_key),
    Member(kInvitationMsgId, a.invitation_msg_id),
    Member(kLimit, a.limit),
    Member(kMyDid, a.my_did),
    Member(kOffset, a.offset),
    Member(kState, a.state),
    Member(kTheirDid, a.their_did),
    Member(kTheirPublicDid, a.their_public_did),
    Member(kTheirRole, a.their_role)>>

\* the comprehension without its filter
query_params_unfiltered(params) == JObj(params)

\* query_params = {k: v for k, v in params.items() if v is not None}
query_params(params) == JObj(SelectSeq(params, LAMBDA p : p.v.t # "null"))

\* list_connections: the GET it sends once it has the token
list_connections_get(m, a, token) ==
  AwaitRequest(m, mGet, pConnections, query_params(ListParams(a)),
               JObj(<<AuthHeader(token)>>), [at |-> 2])

\* list_connections(...) of either traction module
list_connections(m, a) ==
  IF m = TractionTool THEN list_connections_get(m, a, a.auth_token)
  ELSE LET t == api_get_bearer_token([at |-> 1])
       IN IF t.k = "await" THEN t ELSE list_connections_get(m, a, FormatReturn(t.v))

\* list_connections resumed with r, the outcome of the awaited http_request
list_connections_resume(m, a, l, r) ==
  IF l.at = 1 THEN
    LET t == bearer_token_result(r)
    IN IF t.k = "raise" THEN t ELSE list_connections_get(m, a, FormatReturn(t.v))
  ELSE DumpResult(r)

\* get_created_schemas with each value written under the name before its own
SchemaParams_shifted(a) ==
  <<Member(kSchemaId, a.schema_version),
    Member(kSchemaIssuerDid, a.schema_id),
    Member(kSchemaName, a.schema_issuer_did),
    Member(kSchemaVersion, a.schema_name)>>

\* get_created_schemas: the params dict, in the order the code writes it
SchemaParams(a) ==
  <<Member(kSchemaId, a.schema_id),
    Member(kSchemaIssuerDid, a.schema_issuer_did),
    Member(kSchemaName, a.schema_name),
    Member(kSchemaVersion, a.schema_version)>>

\* get_created_schemas: the GET it sends once it has the token
get_created_schemas_get(m, a, token) ==
  AwaitRequest(m, mGet, pSchemasCreated, query_params(SchemaParams(a)),
               JObj(<<AuthHeader(token)>>), [at |-> 2])

\* get_created_schemas(...) of either traction module
get_created_schemas(m, a) ==
  IF m = TractionTool THEN get_created_schemas_get(m, a, a.auth_token)
  ELSE LET t == api_get_bearer_token([at |-> 1])
       IN IF t.k = "await" THEN t ELSE get_created_schemas_get(m, a, FormatReturn(t.v))

\* get_created_schemas resumed with r, the outcome of the awaited http_request
get_created_schemas_resume(m, a, l, r) ==
  IF l.at = 1 THEN
    LET t == bearer_token_result(r)
    IN IF t.k = "raise" THEN t ELSE get_created_schemas_get(m, a, FormatReturn(t.v))
  ELSE DumpResult(r)

\* create_out_of_band_invitation: the payload it posts
oob_payload(a) ==
  JObj(<<Member(kAlias, JStr(a.alias)),
         Member(kMyLabel, JStr(a.my_label)),
         Member(kUsePublicDid, JBool(a.use_public_did))>>
       \o (IF a.handshake
             THEN <<Member(kHandshakeProtocols, JList(<<JStr(kDidExchange)>>))>>
             ELSE <<>>)
       \o (IF Truthy(a.metadata) THEN <<Member(kMetadata, a.metadata)>> ELSE <<>>))

\* create_out_of_band_invitation: the POST it sends once it has the token
oob_post(m, a, token) ==
  AwaitRequest(m, mPost, pCreateInvitation, oob_payload(a),
    JObj(IF m = TractionTool
           THEN <<AuthHeader(token), Member(kContentType, JStr(kApplicationJson))>>
           ELSE <<AuthHeader(token)>>),
    [at |-> 2])

\* the encoding as it would be if the padding were removed by cutting the last
\* two characters instead of rstrip("=")
encoded_invitation_cut(invitation) ==
  LET e == Utf8Decode(B64Encode(Utf8Encode(Dumps(invitation))))
  IN SubSeq(e, 1, Len(e) - 2)

\* base64.urlsafe_b64encode(invitation_json.encode("utf-8")).decode("utf-8").rstrip("=")
encoded_invitation(invitation) ==
  RStripPad(Utf8Decode(B64Encode(Utf8Encode(Dumps(invitation)))))

\* connection_url = f"{base_url}?oob={encoded_invitation}"
connection_url(invitation) == base_url \o kOob \o encoded_invitation(invitation)

\* create_out_of_band_invitation after its POST
oob_result(r) ==
  IF r.k = "raise" THEN r
  ELSE IF ~Iterable(r.v) THEN Raise("TypeError")
  ELSE IF ~InValue(kInvitation, r.v) THEN Ret(Pretty(r.v))
  ELSE IF ~IsObj(r.v) THEN Raise("TypeError")
  ELSE Ret(Text(connection_url(Lookup(r.v, kInvitation))))

\* create_out_of_band_invitation(...) of either traction module
create_out_of_band_invitation(m, a) ==
  IF m = TractionTool THEN oob_post(m, a, a.auth_token)
  ELSE LET t == api_get_bearer_token([at |-> 1])
       IN IF t.k = "await" THEN t ELSE oob_post(m, a, FormatReturn(t.v))

\* create_out_of_band_invitation resumed with r, the outcome of the awaited http_request
create_out_of_band_invitation_resume(m, a, l, r) ==
  IF l.at = 1 THEN
    LET t == bearer_token_result(r)
    IN IF t.k = "raise" THEN t ELSE oob_post(m, a, FormatReturn(t.v))
  ELSE oob_result(r)

\* http_request(method, path, payload) called on its own
http_request(m, a) ==
  AwaitRequest(m, a.method, a.path, a.payload, JNull, [at |-> 1])

\* what a direct call of http_request gives back: the dict, or the exception
http_request_resume(r) == IF r.k = "raise" THEN r ELSE Ret(Value(r.v))

\* ------------------------------------------------------------------------
\* bcovrin_query_server.py
\* ------------------------------------------------------------------------
\* query_bcovrin(query) up to the point where requests.get has sent the GET
query_bcovrin(a) ==
  Await([url |-> BCOVRIN_URL,
         method |-> mGet,
         headers |-> JNull,
         params |-> JObj(<<Member(kQuery, JStr(a.query))>>),
         json |-> JNull,
         timeout |-> 10],
        [at |-> 1])

\* query_bcovrin without its try/except: what requests.get raises leaves the tool
query_bcovrin_resume_uncaught(ev) ==
  IF ev.k = "refused" THEN Raise("ConnectionError")
  ELSE IF ev.k = "timeout" THEN Raise("Timeout")
  ELSE IF ev.status = 200 THEN Ret(Text(ev.body))
  ELSE Ret(Text(eStatusCode \o Digits(ev.status)))

\* query_bcovrin from the point where requests.get returns or raises
query_bcovrin_resume(ev) ==
  IF ev.k = "refused" THEN Ret(Text(eExceptionOccurred \o eConnectionRefused))
  ELSE IF ev.k = "timeout" THEN Ret(Text(eExceptionOccurred \o eReadTimedOut))
  ELSE IF ev.status = 200 THEN Ret(Text(ev.body))
  ELSE Ret(Text(eStatusCode \o Digits(ev.status)))

\* ------------------------------------------------------------------------
\* Every tool resumed after an await
\* ------------------------------------------------------------------------
Resume(m, t, a, l, r) ==
  CASE t = "http_request" -> http_request_resume(r)
    [] t = "send_message_by_alias" -> send_message_by_alias_resume(a, l, r)
    [] t = "query_connection_by_alias" -> query_connection_by_alias_resume(a, l, r)
    [] t = "issue_dynamic_credential" -> issue_dynamic_credential_resume(a, l, r)
    [] t = "get_bearer_token" -> bearer_token_result(r)
    [] t = "get_tenant_details" -> get_tenant_details_resume(m, a, l, r)
    [] t = "list_connections" -> list_connections_resume(m, a, l, r)
    [] t = "get_created_schemas" -> get_created_schemas_resume(m, a, l, r)
    [] t = "create_out_of_band_invitation" -> create_out_of_band_invitation_resume(m, a, l, r)
    [] OTHER -> DumpResult(r)

\* ------------------------------------------------------------------------
\* The identity-agent: what it can answer to a request
\* ------------------------------------------------------------------------
\* "detail"
kDetail ==
  <<100, 101, 116, 97, 105, 108>>
\* "boom"
kBoom ==
  <<98, 111, 111, 109>>
\* "@id"
kAtId ==
  <<64, 105, 100>>
\* "label"
kLabel ==
  <<108, 97, 98, 101, 108>>
\* "hi"
kHi ==
  <<104, 105>>
\* "Default Alias"
kDefaultAlias ==
  <<68, 101, 102, 97, 117, 108, 116, 32, 65, 108, 105, 97, 115>>
\* "Default Label"
kDefaultLabel ==
  <<68, 101, 102, 97, 117, 108, 116, 32, 76, 97, 98, 101, 108>>
\* "tok"
kTok ==
  <<116, 111, 107>>
\* "tok1"
kTok1 ==
  <<116, 111, 107, 49>>
\* "D1"
kD1 ==
  <<68, 49>>
\* "c1"
kC1 ==
  <<99, 49>>
\* "c2"
kC2 ==
  <<99, 50>>
\* "c3"
kC3 ==
  <<99, 51>>
\* "c4"
kC4 ==
  <<99, 52>>
\* "c5"
kC5 ==
  <<99, 53>>
\* "cd1"
kCd1 ==
  <<99, 100, 49>>
\* "cd2"
kCd2 ==
  <<99, 100, 50>>
\* "Bob"
kBob ==
  <<66, 111, 98>>
\* "bob"
kbob ==
  <<98, 111, 98>>
\* "Al"
kAl ==
  <<65, 108>>
\* "BOB"
kBOB ==
  <<66, 79, 66>>
\* "al"
kal ==
  <<97, 108>>
\* "Zed"
kZed ==
  <<90, 101, 100>>
\* "Bo"
kBo ==
  <<66, 111>>
\* "invitation"
kInvitationState ==
  <<105, 110, 118, 105, 116, 97, 116, 105, 111, 110>>
\* "oops"
kOops ==
  <<111, 111, 112, 115>>
\* "name"
kName ==
  <<110, 97, 109, 101>>
\* "value"
kValue ==
  <<118, 97, 108, 117, 101>>
\* "Alice"
kAlice ==
  <<65, 108, 105, 99, 101>>
\* "t1"
kT1 ==
  <<116, 49>>
\* "key1"
kKey1 ==
  <<107, 101, 121, 49>>
\* "v"
kV ==
  <<118>>
\* "k"
kK ==
  <<107>>
\* "GET"
mGET ==
  <<71, 69, 84>>
\* "patch"
mPatch ==
  <<112, 97, 116, 99, 104>>
\* most connections in one /connections answer
MaxConns == 2
\* most optional str filters a caller of list_connections supplies at once
MaxFilters == 1

Resp(status, body) == [k |-> "resp", body |-> body, status |-> status]

Statuses == {200, 201, 500}

\* {} , {"detail":"boom"} , [] , and a body that is not JSON
GenericBodies ==
  {Dumps(JObj(<<>>)), Dumps(JObj(<<Member(kDetail, JStr(kBoom))>>)), Dumps(JList(<<>>)), kOops}

GenericResponses == {Resp(s, b) : s \in Statuses, b \in GenericBodies}

\* a field the agent leaves out of an object
Absent == [t |-> "absent"]

Obj(members) == JObj(SelectSeq(members, LAMBDA p : p.v.t # "absent"))

ConnRecord(id, label, state) ==
  Obj(<<Member(kConnectionId, id), Member(kTheirLabel, label), Member(kState, state)>>)

AgentConnections ==
  {ConnRecord(JStr(kC1), JStr(kBob), JStr(kActive)),
   ConnRecord(JStr(kC2), JStr(kbob), JStr(kInvitationState)),
   ConnRecord(JStr(kC3), JStr(kAl), JStr(kActive)),
   ConnRecord(Absent, JStr(kBob), JStr(kActive)),
   ConnRecord(JStr(kC4), JNull, JStr(kActive)),
   ConnRecord(JStr(kC5), Absent, JStr(kInvitationState))}

ConnLists == StrsUpTo(AgentConnections, MaxConns)

ConnectionsResponses ==
  {Resp(200, Dumps(JObj(<<Member(kResults, JList(cs))>>))) : cs \in ConnLists}
  \cup {Resp(200, Dumps(JObj(<<Member(kResults, JNull)>>))),
        Resp(500, Dumps(JObj(<<Member(kDetail, JStr(kBoom))>>))),
        Resp(200, Dumps(JList(<<>>))),
        Resp(500, kOops)}

PublicDidResponses ==
  {Resp(200, Dumps(JObj(<<Member(kResult, JObj(<<Member(kDid, JStr(kD1))>>))>>))),
   Resp(200, Dumps(JObj(<<Member(kResult, JNull)>>))),
   Resp(200, Dumps(JObj(<<Member(kResult, JObj(<<>>))>>))),
   Resp(200, Dumps(JObj(<<>>))),
   Resp(500, Dumps(JObj(<<Member(kDetail, JStr(kBoom))>>))),
   Resp(500, kOops)}

CredDefsResponses ==
  {Resp(200, Dumps(JObj(<<Member(kCredDefIds, JList(<<JStr(kCd1), JStr(kCd2)>>))>>))),
   Resp(200, Dumps(JObj(<<Member(kCredDefIds, JList(<<>>))>>))),
   Resp(200, Dumps(JObj(<<>>))),
   Resp(500, Dumps(JObj(<<Member(kDetail, JStr(kBoom))>>))),
   Resp(200, Dumps(JList(<<>>)))}

TokenResponses ==
  {Resp(200, Dumps(JObj(<<Member(kToken, JStr(kTok1))>>))),
   Resp(201, Dumps(JObj(<<Member(kToken, JStr(kTok1))>>))),
   Resp(200, Dumps(JObj(<<Member(kToken, JStr(<<>>))>>))),
   Resp(200, Dumps(JObj(<<>>))),
   Resp(200, Dumps(JList(<<>>))),
   Resp(500, Dumps(JObj(<<Member(kDetail, JStr(kBoom))>>))),
   Resp(200, kOops)}

\* characters of the strings inside an invitation: a letter, a quote, a non-ASCII letter
InvitationChars == {97, 34, 233}

Invitations ==
  {JObj(<<Member(kAtId, JStr(s))>>) : s \in StrsUpTo(InvitationChars, MaxLen)}
  \cup {JObj(<<Member(kAtId, JStr(<<97>>)), Member(kLabel, v)>>) :
          v \in {JNum(0), JNum(-7), JNum(123), JBool(TRUE), JBool(FALSE), JNull,
                 JStr(<<92, 10, 47>>), JStr(<<126, 126, 126, 62, 63>>),
                 JStr(<<126, 126, 126, 63>>),
                 JList(<<JStr(kDidExchange), JObj(<<>>)>>),
                 JObj(<<Member(<<233>>, JList(<<>>))>>)}}
  \cup {JObj(<<>>)}

InvitationResponses ==
  {Resp(s, Dumps(JObj(<<Member(kState, JStr(kInvitationState)), Member(kInvitation, i)>>))) :
     s \in {200, 201}, i \in Invitations}
  \cup {Resp(200, Dumps(JList(<<JStr(kInvitation)>>))),
        Resp(200, Dumps(JStr(kInvitation))),
        Resp(200, Dumps(JNum(5)))}
  \cup GenericResponses

EndsWith(s, suffix) ==
  Len(s) >= Len(suffix) /\ SubSeq(s, Len(s) - Len(suffix) + 1, Len(s)) = suffix

AgentResponses(req) ==
  IF req.url = ACAPY_BASE_URL \o pConnections THEN ConnectionsResponses
  ELSE IF EndsWith(req.url, pPublicDid) THEN PublicDidResponses
  ELSE IF EndsWith(req.url, pCredDefsCreated) THEN CredDefsResponses
  ELSE IF EndsWith(req.url, pTenantTokenPost) THEN TokenResponses
  ELSE IF EndsWith(req.url, pCreateInvitation) THEN InvitationResponses
  ELSE GenericResponses

\* ------------------------------------------------------------------------
\* What callers pass
\* ------------------------------------------------------------------------
\* conn_id and content: strings of blanks and letters
UserStrs == StrsUpTo({32, 97}, MaxLen)

Aliases == {kBOB, kal, kZed}

CredentialAttributes ==
  {JStr(Dumps(JList(<<JObj(<<Member(kName, JStr(kName)), Member(kValue, JStr(kAlice))>>)>>))),
   JStr(kOops),
   JList(<<JObj(<<Member(kName, JStr(kName)), Member(kValue, JStr(kAlice))>>)>>),
   JNum(5)}

\* the nine optional str filters of list_connections
FilterNames ==
  {"alias", "connection_protocol", "invitation_key", "invitation_msg_id", "my_did",
   "state", "their_did", "their_public_did", "their_role"}

\* the value a caller gives an argument it supplies
Supplied(f) ==
  CASE f = "state" -> JStr(kActive)
    [] f = "limit" -> JNum(5)
    [] f = "offset" -> JNum(3)
    [] OTHER -> JStr(kBob)

\* the signature's default of an argument the caller leaves out
DefaultOf(f) ==
  CASE f = "limit" -> JNum(100)
    [] f = "offset" -> JNum(0)
    [] OTHER -> JNull

\* Python binds the arguments the caller supplied (the names in fs) and the
\* defaults of the others
Bind(fs, f) == IF f \in fs THEN Supplied(f) ELSE DefaultOf(f)

ListArgs ==
  {[alias |-> Bind(fs, "alias"),
    connection_protocol |-> Bind(fs, "connection_protocol"),
    invitation_key |-> Bind(fs, "invitation_key"),
    invitation_msg_id |-> Bind(fs, "invitation_msg_id"),
    limit |-> Bind(fs, "limit"),
    my_did |-> Bind(fs, "my_did"),
    offset |-> Bind(fs, "offset"),
    state |-> Bind(fs, "state"),
    their_did |-> Bind(fs, "their_did"),
    their_public_did |-> Bind(fs, "their_public_did"),
    their_role |-> Bind(fs, "their_role"),
    auth_token |-> kTok,
    supplied |-> fs] :
   fs \in {x \in SUBSET (FilterNames \cup {"limit", "offset"}) :
             Cardinality(x \cap FilterNames) <= MaxFilters}}

\* what a caller passes for an argument of get_created_schemas: nothing
\* (the default None), a text, or the empty text
SchemaArgs ==
  {[schema_id |-> id, auth_token |-> kTok, schema_version |-> version,
    schema_issuer_did |-> did, schema_name |-> name] :
   id \in {JNull, JStr(kC1)}, did \in {JNull, JStr(kD1)},
   name \in {JNull, JStr(kName)}, version \in {JNull, JStr(<<>>)}}

OobDefaults ==
  [alias |-> kDefaultAlias, auth_token |-> kTok, my_label |-> kDefaultLabel,
   use_public_did |-> FALSE, handshake |-> TRUE, metadata |-> JNull]

\* the defaults, or one argument given another value
OobArgs ==
  {OobDefaults}
  \cup {[OobDefaults EXCEPT !.alias = <<97>>], [OobDefaults EXCEPT !.handshake = FALSE],
        [OobDefaults EXCEPT !.use_public_did = TRUE], [OobDefaults EXCEPT !.my_label = <<97>>]}
  \cup {[OobDefaults EXCEPT !.metadata = v] : v \in {JObj(<<>>), JObj(<<Member(kK, JStr(kV))>>)}}

\* JSON texts a caller passes: {} , {"k":"v"} , and malformed ones
JsonTexts ==
  {Dumps(JObj(<<>>)), Dumps(JObj(<<Member(kK, JStr(kV))>>)), kOops, <<>>, <<123>>,
   <<123, 125, 125>>}

\* the callers whose tool calls the server's event loop runs side by side
MaxCalls == 2

Callers == 1..MaxCalls

\* a caller with no call in progress
IdleCall ==
  [loc |-> [at |-> 0], module |-> "none", tool |-> "none", args |-> <<>>, pc |-> "idle",
   sent |-> <<>>, recv |-> <<>>, outcome |-> NoOutcome]

\* ------------------------------------------------------------------------
\* Actions
\* ------------------------------------------------------------------------
Init ==
  /\ TENANT_ID \in {<<>>, kT1}
  /\ API_KEY \in {<<>>, kKey1}
  /\ module = "none"
  /\ tool = "none"
  /\ args = <<>>
  /\ pc = "idle"
  /\ loc = [at |-> 0]
  /\ sent = <<>>
  /\ recv = <<>>
  /\ elapsed = 0
  /\ outcome = NoOutcome
  /\ calls = [c \in Callers |-> IdleCall]
  /\ sessions = 0

Call_http_request ==
  \E m \in Modules, method \in {mGet, mPost, mPut, mDelete, mGET, mPatch},
     payload \in {JNull, JObj(<<Member(kK, JStr(kV))>>)} :
    LET a == [method |-> method, payload |-> payload, path |-> pStatus]
    IN Begin(m, "http_request", a, http_request(m, a))

Call_query_connections ==
  \E m \in {AcapyTool, McpAcapyTool} :
    Begin(m, "query_connections", <<>>, query_connections(m))

Call_get_public_did ==
  Begin(AcapyTool, "get_public_did", <<>>, get_public_did(AcapyTool))

Call_get_proof_record ==
  \E pres_ex_id \in {kC1, <<>>} :
    LET a == [pres_ex_id |-> pres_ex_id]
    IN Begin(AcapyTool, "get_proof_record", a, get_proof_record(a))

Call_send_message ==
  \E conn_id \in UserStrs, content \in UserStrs :
    LET a == [conn_id |-> conn_id, content |-> content]
    IN Begin(AcapyTool, "send_message", a, send_message(a))

Call_get_status ==
  Begin(McpAcapyTool, "get_status", <<>>, get_status(McpAcapyTool))

Call_send_basic_message ==
  \E conn_id \in UserStrs, content \in UserStrs :
    LET a == [conn_id |-> conn_id, content |-> content]
    IN Begin(McpAcapyTool, "send_basic_message", a, send_basic_message(a))

Call_send_message_by_alias ==
  \E alias \in Aliases :
    LET a == [content |-> kHi, alias |-> alias]
    IN Begin(AcapyTool, "send_message_by_alias", a, send_message_by_alias(a))

Call_query_connection_by_alias ==
  \E alias \in Aliases :
    LET a == [alias |-> alias]
    IN Begin(AcapyTool, "query_connection_by_alias", a, query_connection_by_alias(a))

Call_issue_dynamic_credential ==
  \E ca \in CredentialAttributes :
    LET a == [credential_attributes |-> ca]
    IN Begin(AcapyTool, "issue_dynamic_credential", a, issue_dynamic_credential(a))

\* the tool of mcp_tools/traction_api_tool.py, or the coroutine of
\* tools/traction_api.py awaited on its own
Call_get_bearer_token ==
  \/ \E tenant_id \in {kT1}, api_key \in {kKey1, <<>>} :
       LET a == [tenant_id |-> tenant_id, api_key |-> api_key]
       IN Begin(TractionTool, "get_bearer_token", a, get_bearer_token(a))
  \/ Begin(TractionApi, "get_bearer_token", <<>>, api_get_bearer_token([at |-> 1]))

Call_get_tenant_details ==
  \/ \E token \in {kTok1, eNoToken} :
       LET a == [token |-> token]
       IN Begin(TractionTool, "get_tenant_details", a, get_tenant_details(TractionTool, a))
  \/ Begin(TractionApi, "get_tenant_details", <<>>, get_tenant_details(TractionApi, <<>>))

Call_list_connections ==
  \E m \in {TractionTool, TractionApi}, a \in ListArgs :
    Begin(m, "list_connections", a, list_connections(m, a))

Call_get_created_schemas ==
  \E m \in {TractionTool, TractionApi}, a \in SchemaArgs :
    Begin(m, "get_created_schemas", a, get_created_schemas(m, a))

Call_create_out_of_band_invitation ==
  \E m \in {TractionTool, TractionApi}, a \in OobArgs :
    Begin(m, "create_out_of_band_invitation", a, create_out_of_band_invitation(m, a))

Call_receive_invitation ==
  \E text \in JsonTexts :
    LET a == [invitation |-> text]
    IN Begin(AcapyTool, "receive_invitation", a, receive_invitation(a))

Call_issue_credential ==
  \/ \E text \in JsonTexts :
       LET a == [credential_offer |-> text]
       IN Begin(AcapyTool, "issue_credential", a, issue_credential(AcapyTool, a))
  \/ \E text \in JsonTexts :
       LET a == [payload |-> text, cred_ex_id |-> kC1]
       IN Begin(McpAcapyTool, "issue_credential", a, issue_credential(McpAcapyTool, a))

Call_send_proof_request ==
  \E text \in JsonTexts :
    LET a == [proof_request |-> text]
    IN Begin(AcapyTool, "send_proof_request", a, send_proof_request(a))

Call_send_proof_request_v2 ==
  \E text \in JsonTexts :
    LET a == [proof_request |-> text]
    IN Begin(McpAcapyTool, "send_proof_request_v2", a, send_proof_request_v2(a))

Call_send_credential_offer ==
  \E text \in JsonTexts :
    LET a == [payload |-> text]
    IN Begin(McpAcapyTool, "send_credential_offer", a, send_credential_offer(a))

Call_send_credential_request ==
  \E text \in JsonTexts :
    LET a == [payload |-> text, cred_ex_id |-> kC1]
    IN Begin(McpAcapyTool, "send_credential_request", a, send_credential_request(a))

Call_store_credential ==
  \E text \in JsonTexts :
    LET a == [payload |-> text, cred_ex_id |-> kC1]
    IN Begin(McpAcapyTool, "store_credential", a, store_credential(a))

Call_ledger_register_did ==
  \E text \in JsonTexts :
    LET a == [did_info |-> text]
    IN Begin(McpAcapyTool, "ledger_register_did", a, ledger_register_did(a))

Call_query_bcovrin ==
  \E query \in {kBob, <<>>} :
    LET a == [query |-> query]
    IN Begin(BcovrinServer, "query_bcovrin", a, query_bcovrin(a))

Call_create_oob_invitation ==
  \E text \in JsonTexts :
    LET a == [payload |-> text]
    IN Begin(McpAcapyTool, "create_oob_invitation", a, create_oob_invitation(a))

\* the pending request can still be answered
BeforeDeadline == Pending.timeout = 0 \/ elapsed < Pending.timeout

\* the session ends the request with ev and cancels its timer; the event loop
\* will wake the coroutine that awaits it
Deliver(ev) ==
  /\ recv' = Append(recv, ev)
  /\ elapsed' = 0
  /\ pc' = "ready"
  /\ UNCHANGED <<TENANT_ID, API_KEY, module, tool, args, loc, sent, outcome, calls, sessions>>

\* the agent answers
Respond ==
  /\ pc = "wait"
  /\ BeforeDeadline
  /\ \E resp \in AgentResponses(Pending) : Deliver(resp)

\* the connection is refused or breaks
ConnectionFails ==
  /\ pc = "wait"
  /\ BeforeDeadline
  /\ Deliver([k |-> "refused"])

\* the session's total timeout runs out
TimeoutExpires ==
  /\ pc = "wait"
  /\ Pending.timeout # 0
  /\ elapsed = Pending.timeout
  /\ Deliver([k |-> "timeout"])

\* a second passes while the request is pending
Tick ==
  /\ pc = "wait"
  /\ BeforeDeadline
  /\ elapsed < MaxClock
  /\ elapsed' = elapsed + 1
  /\ UNCHANGED <<TENANT_ID, API_KEY, module, tool, args, pc, loc, sent, recv, outcome, calls,
                 sessions>>

\* the transport cancels the call while its request is pending: the task is
\* cancelled and CancelledError is raised at its await (query_bcovrin has no
\* await: it blocks in requests.get)
Cancelled ==
  /\ pc = "wait"
  /\ module # BcovrinServer
  /\ Deliver([k |-> "cancelled"])

\* http_request gets the event and the tool runs on to its next await or its end
Resumes ==
  /\ pc = "ready"
  /\ LET next == IF module = BcovrinServer
                   THEN query_bcovrin_resume(recv[Len(recv)])
                   ELSE Resume(module, tool, args, loc,
                          http_request_recv(module, Pending.method, recv[Len(recv)]))
     IN /\ Continue(next)
        /\ sessions' = RunsTo(session_exit(sessions,
                                 LeavesBy(module, Pending.method, recv[Len(recv)])), next)

\* the transport takes the result; nothing of the call survives
Responding ==
  /\ pc = "done"
  /\ module' = "none"
  /\ tool' = "none"
  /\ args' = <<>>
  /\ pc' = "idle"
  /\ loc' = [at |-> 0]
  /\ sent' = <<>>
  /\ recv' = <<>>
  /\ elapsed' = 0
  /\ outcome' = NoOutcome
  /\ UNCHANGED <<TENANT_ID, API_KEY, calls, sessions>>

Next ==
  \/ Call_http_request
  \/ Call_query_connections
  \/ Call_get_public_did
  \/ Call_get_proof_record
  \/ Call_send_message
  \/ Call_get_status
  \/ Call_send_basic_message
  \/ Call_send_message_by_alias
  \/ Call_query_connection_by_alias
  \/ Call_issue_dynamic_credential
  \/ Call_get_bearer_token
  \/ Call_get_tenant_details
  \/ Call_list_connections
  \/ Call_get_created_schemas
  \/ Call_create_out_of_band_invitation
  \/ Call_receive_invitation
  \/ Call_issue_credential
  \/ Call_send_proof_request
  \/ Call_send_proof_request_v2
  \/ Call_send_credential_offer
  \/ Call_send_credential_request
  \/ Call_store_credential
  \/ Call_ledger_register_did
  \/ Call_create_oob_invitation
  \/ Call_query_bcovrin
  \/ Respond
  \/ ConnectionFails
  \/ TimeoutExpires
  \/ Tick
  \/ Cancelled
  \/ Resumes
  \/ Responding

Spec == Init /\ [][Next]_vars

\* ------------------------------------------------------------------------
\* Tool calls side by side: the event loop runs one coroutine until it
\* awaits, then any other that is ready
\* ------------------------------------------------------------------------
\* "tok2"
kTok2 ==
  <<116, 111, 107, 50>>

\* a tool called with arguments a, up to its first await
Start(m, t, a) ==
  CASE t = "get_bearer_token" ->
         (IF m = TractionTool THEN get_bearer_token(a) ELSE api_get_bearer_token([at |-> 1]))
    [] t = "get_tenant_details" -> get_tenant_details(m, a)
    [] t = "list_connections" -> list_connections(m, a)
    [] t = "create_out_of_band_invitation" -> create_out_of_band_invitation(m, a)
    [] t = "send_message" -> send_message(a)

\* the calls that arrive while others are in progress
SideBySideCalls ==
  {[module |-> TractionApi, tool |-> "get_tenant_details", args |-> <<>>],
   [module |-> AcapyTool, tool |-> "send_message", args |-> [conn_id |-> kC1, content |-> kHi]]}

\* what the agent answers to them
SideBySideResponses(req) ==
  IF EndsWith(req.url, pTenantTokenPost)
    THEN {Resp(200, Dumps(JObj(<<Member(kToken, JStr(kTok1))>>))),
          Resp(200, Dumps(JObj(<<Member(kToken, JStr(kTok2))>>))),
          Resp(500, Dumps(JObj(<<Member(kDetail, JStr(kBoom))>>)))}
    ELSE {Resp(200, Dumps(JObj(<<>>))), Resp(500, Dumps(JObj(<<Member(kDetail, JStr(kBoom))>>)))}

\* a coroutine's frame after it ran to `next`
Advance(call, next) ==
  IF next.k = "await"
    THEN [call EXCEPT !.pc = "wait", !.loc = next.loc, !.sent = Append(@, next.req),
                      !.outcome = NoOutcome]
    ELSE [call EXCEPT !.pc = "done", !.outcome = next]

\* the frame whose session got the event
Receive(call, ev) == [call EXCEPT !.pc = "ready", !.recv = Append(@, ev)]

\* what a session that several calls share would hand to caller c
Delivered_shared(c) ==
  LET d == CHOOSE d \in Callers : calls[d].pc = "ready"
  IN calls[d].recv[Len(calls[d].recv)]

\* what the session of caller c's http_request hands to it: each
\* http_request opens a ClientSession of its own
Delivered(c) == calls[c].recv[Len(calls[c].recv)]

PendingOf(c) == calls[c].sent[Len(calls[c].sent)]

\* a call arrives for caller c
CallStarts ==
  \E c \in Callers, new \in SideBySideCalls :
    /\ calls[c].pc = "idle"
    /\ calls' = [calls EXCEPT ![c] =
         Advance([IdleCall EXCEPT !.module = new.module, !.tool = new.tool, !.args = new.args],
                 Start(new.module, new.tool, new.args))]
    /\ sessions' = RunsTo(sessions, Start(new.module, new.tool, new.args))
    /\ UNCHANGED <<TENANT_ID, API_KEY, module, tool, args, pc, loc, sent, recv, elapsed, outcome>>

\* the agent answers the pending request of caller c
AgentAnswers ==
  \E c \in Callers :
    /\ calls[c].pc = "wait"
    /\ \E resp \in SideBySideResponses(PendingOf(c)) :
         calls' = [calls EXCEPT ![c] = Receive(@, resp)]
    /\ UNCHANGED sessions
    /\ UNCHANGED <<TENANT_ID, API_KEY, module, tool, args, pc, loc, sent, recv, elapsed, outcome>>

\* the connection of caller c's pending request is refused or breaks
RequestFails ==
  \E c \in Callers :
    /\ calls[c].pc = "wait"
    /\ calls' = [calls EXCEPT ![c] = Receive(@, [k |-> "refused"])]
    /\ UNCHANGED sessions
    /\ UNCHANGED <<TENANT_ID, API_KEY, module, tool, args, pc, loc, sent, recv, elapsed, outcome>>

\* the total timeout of caller c's session runs out
RequestTimesOut ==
  \E c \in Callers :
    /\ calls[c].pc = "wait"
    /\ PendingOf(c).timeout # 0
    /\ calls' = [calls EXCEPT ![c] = Receive(@, [k |-> "timeout"])]
    /\ UNCHANGED sessions
    /\ UNCHANGED <<TENANT_ID, API_KEY, module, tool, args, pc, loc, sent, recv, elapsed, outcome>>

\* the transport cancels caller c's call while its request is pending
CallCancelled ==
  \E c \in Callers :
    /\ calls[c].pc = "wait"
    /\ calls' = [calls EXCEPT ![c] = Receive(@, [k |-> "cancelled"])]
    /\ UNCHANGED sessions
    /\ UNCHANGED <<TENANT_ID, API_KEY, module, tool, args, pc, loc, sent, recv, elapsed, outcome>>

\* the event loop runs caller c's coroutine on to its next await or its end
CallResumes ==
  \E c \in Callers :
    /\ calls[c].pc = "ready"
    /\ LET call == calls[c]
           next == Resume(call.module, call.tool, call.args, call.loc,
                          http_request_recv(call.module, PendingOf(c).method, Delivered(c)))
       IN /\ calls' = [calls EXCEPT ![c] = Advance(call, next)]
          /\ sessions' = RunsTo(session_exit(sessions,
                                   LeavesBy(call.module, PendingOf(c).method, Delivered(c))), next)
    /\ UNCHANGED <<TENANT_ID, API_KEY, module, tool, args, pc, loc, sent, recv, elapsed, outcome>>

\* the transport takes the result of caller c's call
CallReturns ==
  \E c \in Callers :
    /\ calls[c].pc = "done"
    /\ calls' = [calls EXCEPT ![c] = IdleCall]
    /\ UNCHANGED sessions
    /\ UNCHANGED <<TENANT_ID, API_KEY, module, tool, args, pc, loc, sent, recv, elapsed, outcome>>

NextSideBySide ==
  \/ CallStarts
  \/ AgentAnswers
  \/ RequestFails
  \/ RequestTimesOut
  \/ CallCancelled
  \/ CallResumes
  \/ CallReturns

SpecSideBySide == Init /\ [][NextSideBySide]_vars

\* ------------------------------------------------------------------------
\* Properties
\* ------------------------------------------------------------------------
\* the last answer the call received, and the request it answered
LastRecv == recv[Len(recv)]
LastSent == sent[Len(recv)]

\* the text of the string a tool returned
Rendered(x) == IF x.t = "text" THEN x.s ELSE DumpsIndent(x.v, 0)

StartsWith(s, prefix) == Len(s) >= Len(prefix) /\ SubSeq(s, 1, Len(prefix)) = prefix

\* the agent answered the create-invitation POST with a success status and a
\* JSON object that has an `invitation` field
InvitationReceived ==
  /\ tool = "create_out_of_band_invitation"
  /\ pc = "done"
  /\ recv # <<>>
  /\ EndsWith(LastSent.url, pCreateInvitation)
  /\ LastRecv.k = "resp"
  /\ LastRecv.status \in {200, 201}
  /\ Loads(LastRecv.body).ok
  /\ IsObj(Loads(LastRecv.body).v)
  /\ HasKey(Loads(LastRecv.body).v, kInvitation)

\* C1: whenever the agent returns an invitation I in the `invitation` field,
\* create_out_of_band_invitation returns a connection URL, and cutting the
\* value after "?oob=", re-adding the padding, base64url-decoding and parsing
\* it as JSON gives a value equal to I.
C1_InvitationRoundTrip ==
  InvitationReceived =>
    /\ outcome.k = "return"
    /\ outcome.v.t = "text"
    /\ decode_connection_url(outcome.v.s)
         = [v |-> Lookup(Loads(LastRecv.body).v, kInvitation), ok |-> TRUE]

\* an invitation with a string that json.dumps has to escape was encoded to a
\* text whose padding was stripped, and a URL came back
C1_Witness ==
  /\ InvitationReceived
  /\ outcome.k = "return"
  /\ outcome.v.t = "text"
  /\ Lookup(Loads(LastRecv.body).v, kInvitation) = JObj(<<Member(kAtId, JStr(<<97, 34>>))>>)
  /\ Len(Split(outcome.v.s, kOob)[2]) % 4 # 0

\* a str that is empty or consists of whitespace only
Blank(s) == \A i \in 1..Len(s) : s[i] \in {32, 9, 10, 11, 12, 13}

\* a basic-message tool was called with a blank conn_id or content
BlankMessageCall ==
  /\ tool \in {"send_message", "send_basic_message"}
  /\ Blank(args.conn_id) \/ Blank(args.content)

\* C2: when conn_id or content is empty or whitespace-only, send_message and
\* send_basic_message return a validation error string and no HTTP request
\* is issued.
C2_BlankMessageRejected ==
  BlankMessageCall =>
    /\ pc = "done"
    /\ sent = <<>>
    /\ outcome.k = "return"
    /\ outcome.v.t = "text"
    /\ StartsWith(outcome.v.s, kErrorPrefix)

\* send_message was called with a whitespace-only connection id and a good
\* content, and has returned
C2_Witness ==
  /\ tool = "send_message"
  /\ args.conn_id = <<32, 32>>
  /\ args.content = <<97>>
  /\ pc = "done"
  /\ outcome = Ret(Text(eConnIdRequired))


\* a direct call of http_request has been answered by the agent
HttpRequestAnswered ==
  /\ tool = "http_request"
  /\ pc = "done"
  /\ recv # <<>>
  /\ LastRecv.k = "resp"

\* the record a helper returns for a status that is no success
ErrorRecord(resp) ==
  JObj(<<Member(kError, JStr(resp.body)), Member(kStatus, JNum(resp.status))>>)

\* C3: in every http_request helper a GET, PUT or DELETE response is a
\* success only with status 200 and a POST response only with 200 or 201;
\* for every other status the helper returns an error record that carries
\* the status unchanged.
C3_StatusJudged ==
  (/\ HttpRequestAnswered
   /\ LastRecv.status \notin (IF LastSent.method = mPost THEN {200, 201} ELSE {200}))
    => outcome = Ret(Value(ErrorRecord(LastRecv)))

\* the agent answered request i of the call, a POST, with a status that is no success
PostFailed(i) ==
  /\ sent[i].method = mPost
  /\ recv[i].k = "resp"
  /\ recv[i].status \notin {200, 201}

\* text t shows status and body of a response: the status in decimal, the
\* body as it is or as the content of a JSON string
ShowsResponse(t, resp) ==
  /\ Contains(t, Digits(resp.status))
  /\ Contains(t, resp.body) \/ Contains(t, EscapeAll(resp.body))

\* C4: when the agent answers a tool's POST with a non-success status S and
\* body text B, the string the tool returns contains both S and B.
C4_PostErrorReported ==
  (pc = "done" /\ tool # "http_request") =>
    \A i \in 1..Len(recv) :
      PostFailed(i) =>
        /\ outcome.k = "return"
        /\ outcome.v.t \in {"text", "pretty"}
        /\ ShowsResponse(Rendered(outcome.v), recv[i])


\* request i of the call is list_connections' GET /connections
ConnectionsGet(i) ==
  /\ tool = "list_connections"
  /\ sent[i].method = mGet
  /\ EndsWith(sent[i].url, pConnections)

\* the query-parameter name of an argument of list_connections
ParamName(f) ==
  CASE f = "alias" -> kAlias
    [] f = "connection_protocol" -> kConnectionProtocol
    [] f = "invitation_key" -> kInvitationKey
    [] f = "invitation_msg_id" -> kInvitationMsgId
    [] f = "limit" -> kLimit
    [] f = "my_did" -> kMyDid
    [] f = "offset" -> kOffset
    [] f = "state" -> kState
    [] f = "their_did" -> kTheirDid
    [] f = "their_public_did" -> kTheirPublicDid
    [] f = "their_role" -> kTheirRole

\* a JSON object as the set of its (name, value) pairs
Pairs(obj) == {<<obj.m[j].k, obj.m[j].v>> : j \in 1..Len(obj.m)}

\* the query parameters are the filters the caller supplied and nothing else
C5_ParamsAreSuppliedFilters ==
  \A i \in 1..Len(sent) :
    ConnectionsGet(i) =>
      /\ IsObj(sent[i].params)
      /\ Pairs(sent[i].params) = {<<ParamName(f), Supplied(f)>> : f \in args.supplied}

\* C5 (as amended): the query parameters list_connections sends are, each
\* once, the arguments whose value is not None, where limit and offset take
\* their defaults 100 and 0 when the caller leaves them out: limit=100 and
\* offset=0 alone when every filter is omitted, and state="active", limit=5,
\* offset=0 for list_connections(state="active", limit=5).
C5_ParamsAreBoundArguments ==
  \A i \in 1..Len(sent) :
    ConnectionsGet(i) =>
      /\ IsObj(sent[i].params)
      /\ Cardinality(Pairs(sent[i].params)) = Len(sent[i].params.m)
      /\ \A j \in 1..Len(sent[i].params.m) : sent[i].params.m[j].v # JNull
      /\ Pairs(sent[i].params)
           = {<<ParamName(f), Supplied(f)>> : f \in args.supplied}
             \cup {<<kLimit, JNum(100)>> : f \in {"limit"} \ args.supplied}
             \cup {<<kOffset, JNum(0)>> : f \in {"offset"} \ args.supplied}

\* list_connections(state="active", limit=5) has sent its GET
C5_Witness ==
  /\ tool = "list_connections"
  /\ args.supplied = {"state", "limit"}
  /\ sent # <<>>
  /\ ConnectionsGet(Len(sent))
  /\ sent[Len(sent)].params
       = JObj(<<Member(kLimit, JNum(5)), Member(kOffset, JNum(0)),
                Member(kState, JStr(kActive))>>)


\* the agent answered request i with a JSON object
Answered(i) ==
  /\ Len(recv) >= i
  /\ recv[i].k = "resp"
  /\ Loads(recv[i].body).ok
  /\ IsObj(Loads(recv[i].body).v)

Parsed(i) == Loads(recv[i].body).v

\* the coroutine has run on after the answer to request i
Resumed(i) == Len(recv) > i \/ (Len(recv) = i /\ pc # "ready")

\* the agent listed its connections, each an object with a text label or none
ConnectionsListed ==
  /\ Answered(1)
  /\ Get(Parsed(1), kResults, JList(<<>>)).t = "list"
  /\ \A j \in 1..Len(Get(Parsed(1), kResults, JList(<<>>)).xs) :
       LabelOk(Get(Parsed(1), kResults, JList(<<>>)).xs[j])

\* the listed connections whose label is the alias
Matching == AliasMatches(Get(Parsed(1), kResults, JList(<<>>)).xs, args.alias)

\* record x reports on connection conn: it carries its id, or the connection
\* itself when that has no id
ReportsOn(x, conn) ==
  /\ IsObj(x)
  /\ IF Truthy(Get(conn, kConnectionId, JNull))
       THEN Get(x, kConnectionId, JNull) = Get(conn, kConnectionId, JNull)
       ELSE Get(x, kConnection, JNull) = conn

\* C6: send_message_by_alias with no matching connection returns a single
\* error record and sends no message; with N >= 1 matching connections it
\* returns a list of exactly N records, one per matching connection, each
\* with the id of its connection.
C6_OneRecordPerMatch ==
  (tool = "send_message_by_alias" /\ pc = "done" /\ ConnectionsListed) =>
    /\ outcome.k = "return"
    /\ outcome.v.t = "pretty"
    /\ IF Matching = <<>>
         THEN /\ IsObj(outcome.v.v)
              /\ HasKey(outcome.v.v, kError)
              /\ Len(sent) = 1
         ELSE /\ outcome.v.v.t = "list"
              /\ Len(outcome.v.v.xs) = Len(Matching)
              /\ \A j \in 1..Len(Matching) : ReportsOn(outcome.v.v.xs[j], Matching[j])

\* request i of the call is the credential offer
OfferSent(i) == sent[i].method = mPost /\ EndsWith(sent[i].url, pIssueSend)

\* a value obtained from the agent: a text that is neither empty nor the placeholder
RealValue(v) == v.t = "str" /\ v.s # <<>> /\ v.s # PLACEHOLDER_SCHEMA_ID

\* the agent reported no public DID
NoPublicDid ==
  /\ Answered(1)
  /\ LET result == Get(Parsed(1), kResult, JNull)
     IN \/ result = JNull
        \/ IsObj(result) /\ ~Truthy(Get(result, kDid, JNull))

\* the agent listed connections, none of them in state active
NoActiveConnection ==
  /\ Answered(2)
  /\ Get(Parsed(2), kResults, JList(<<>>)).t = "list"
  /\ \A j \in 1..Len(Get(Parsed(2), kResults, JList(<<>>)).xs) :
       LET conn == Get(Parsed(2), kResults, JList(<<>>)).xs[j]
       IN IsObj(conn) /\ Get(conn, kState, JNull) # JStr(kActive)

\* the agent reported no credential definition
NoCredentialDefinition ==
  /\ Answered(3)
  /\ Get(Parsed(3), kCredDefIds, JList(<<>>)) = JList(<<>>)

\* once resumed after answer i, the call is over with the error text e and
\* nothing was sent after request i
StopsWith(i, e) ==
  Resumed(i) => (pc = "done" /\ outcome = Ret(Text(e)) /\ Len(sent) = i)

\* C7: issue_dynamic_credential returns its named error and sends no offer
\* when there is no public DID, no active connection or no credential
\* definition; every offer it posts holds real values from the agent in
\* connection_id, issuer_did, schema_id and cred_def_id.
C7_OfferOnlyWithRealValues ==
  tool = "issue_dynamic_credential" =>
    /\ NoPublicDid => StopsWith(1, eNoPublicDid)
    /\ NoActiveConnection => StopsWith(2, eNoActiveConnections)
    /\ NoCredentialDefinition => StopsWith(3, eNoCredDefs)
    /\ \A i \in 1..Len(sent) :
         OfferSent(i) =>
           \A f \in {kConnectionId, kIssuerDid, kSchemaId, kCredDefId} :
             RealValue(Get(sent[i].json, f, JNull))


\* C8: every tool call ends by returning a string, whatever the outcome of
\* its HTTP requests; no exception leaves the tool function.
C8_ToolReturnsString ==
  (pc = "done" /\ tool # "http_request") =>
    /\ outcome.k = "return"
    /\ outcome.v.t \in {"text", "pretty"}

\* a direct call of http_request has failed below HTTP: refused, or timed out
HttpRequestFailed ==
  /\ tool = "http_request"
  /\ pc = "done"
  /\ recv # <<>>
  /\ LastRecv.k \in {"refused", "timeout"}

\* C9: when a request fails at the network level, http_request returns a
\* failure record with status 0 and a description; the transport's
\* exception does not reach the caller.
C9_NetworkFailureIsRecord ==
  HttpRequestFailed =>
    /\ outcome.k = "return"
    /\ outcome.v.t = "value"
    /\ IsObj(outcome.v.v)
    /\ Get(outcome.v.v, kStatus, JNull) = JNum(0)
    /\ Get(outcome.v.v, kError, JNull).t = "str"

\* C10: every HTTP request a tool issues is bounded by the fixed request
\* timeout: none is still pending after HTTP_TIMEOUT seconds.
C10_RequestBounded == pc = "wait" => elapsed <= HTTP_TIMEOUT


\* get_bearer_token is called without its configuration: tools/traction_api.py
\* read an empty TENANT_ID or API_KEY from the environment
NotConfigured == module = TractionApi /\ (TENANT_ID = <<>> \/ API_KEY = <<>>)

\* the tenant id the call's token path is built from
TenantOfCall == IF module = TractionApi THEN TENANT_ID ELSE args.tenant_id

\* the `token` field of answer i when the POST succeeded and the body is an
\* object with a non-empty text in that field; JNull otherwise
TokenIn(i) ==
  IF Answered(i) /\ recv[i].status \in {200, 201}
       /\ Get(Parsed(i), kToken, JNull).t = "str"
       /\ Get(Parsed(i), kToken, JNull).s # <<>>
    THEN Get(Parsed(i), kToken, JNull)
    ELSE JNull

\* C11: get_bearer_token issues exactly one POST to
\* /multitenancy/tenant/{tenantId}/token per call (none in
\* tools/traction_api.py when the tenant id or API key is not configured)
\* and never retries; when that POST fails or its body has no non-empty
\* `token` field it returns a string starting with "Error", otherwise it
\* returns exactly the token value.
C11_TokenOrError ==
  (tool = "get_bearer_token" /\ pc = "done") =>
    /\ Len(sent) = (IF NotConfigured THEN 0 ELSE 1)
    /\ \A i \in 1..Len(sent) :
         /\ sent[i].method = mPost
         /\ sent[i].url = TRACTION_BASE_URL \o TokenPath(TenantOfCall)
    /\ outcome.k = "return"
    /\ outcome.v.t = "text"
    /\ IF sent # <<>> /\ TokenIn(1) # JNull
         THEN outcome.v.s = TokenIn(1).s
         ELSE StartsWith(outcome.v.s, kErrorPrefix)


\* the tools that take a JSON text, and the argument that holds it
JsonArgumentTools ==
  {"receive_invitation", "issue_credential", "send_proof_request", "send_proof_request_v2",
   "issue_dynamic_credential", "create_oob_invitation", "send_credential_offer",
   "send_credential_request", "store_credential", "ledger_register_did"}

JsonArgument ==
  CASE tool = "receive_invitation" -> JStr(args.invitation)
    [] tool = "issue_credential" /\ module = AcapyTool -> JStr(args.credential_offer)
    [] tool \in {"send_proof_request", "send_proof_request_v2"} -> JStr(args.proof_request)
    [] tool = "issue_dynamic_credential" -> args.credential_attributes
    [] tool = "ledger_register_did" -> JStr(args.did_info)
    [] OTHER -> JStr(args.payload)

\* a tool was called with a JSON text that json.loads rejects
MalformedJsonCall ==
  /\ tool \in JsonArgumentTools
  /\ JsonArgument.t = "str"
  /\ ~Loads(JsonArgument.s).ok

\* C12: for every tool that takes a JSON-string argument, a malformed JSON
\* argument makes the tool return an error string without issuing any HTTP
\* request.
C12_MalformedJsonRejected ==
  MalformedJsonCall =>
    /\ pc = "done"
    /\ sent = <<>>
    /\ outcome.k = "return"
    /\ outcome.v.t = "text"
    /\ Contains(outcome.v.s, JsonErrorText)

\* store_credential of mcp_tools/acapy_api_tool.py was called with the text
\* "{" and has returned its message
C12_Witness ==
  /\ tool = "store_credential"
  /\ args.payload = <<123>>
  /\ pc = "done"
  /\ outcome = Ret(Text(eInvalidPayload \o JsonErrorText))


\* request i of the call is the POST that creates the invitation
InvitationPost(i) ==
  /\ tool = "create_out_of_band_invitation"
  /\ sent[i].method = mPost
  /\ EndsWith(sent[i].url, pCreateInvitation)

\* the agent answered request i, a POST, with an error status or with JSON
HasResponse(i) ==
  /\ recv[i].k = "resp"
  /\ recv[i].status \in {200, 201} => Loads(recv[i].body).ok

\* the response to request i, a POST: the decoded body, or the error record
ResponseTo(i) == IF recv[i].status \in {200, 201} THEN Parsed(i) ELSE ErrorRecord(recv[i])

HasInvitationField(v) == IsObj(v) /\ HasKey(v, kInvitation)

\* C13: create_out_of_band_invitation returns the raw agent response
\* (pretty-printed JSON, including an error record) and builds no connection
\* URL whenever the response has no `invitation` field; it returns a
\* connection URL if and only if the response has an `invitation` field.
C13_UrlIffInvitation ==
  (tool = "create_out_of_band_invitation" /\ pc = "done") =>
    \A i \in 1..Len(recv) :
      (InvitationPost(i) /\ HasResponse(i)) =>
        /\ outcome.k = "return"
        /\ IF HasInvitationField(ResponseTo(i))
             THEN outcome.v.t = "text" /\ StartsWith(outcome.v.s, base_url \o kOob)
             ELSE outcome.v = Pretty(ResponseTo(i))


\* a call run on its own: the coroutine taken from step `next` through the
\* events from the i-th on
RECURSIVE RunFrom(_, _, _, _, _, _)
RunFrom(m, t, a, next, events, i) ==
  IF next.k # "await" \/ i > Len(events) THEN next
  ELSE RunFrom(m, t, a,
               Resume(m, t, a, next.loc, http_request_recv(m, next.req.method, events[i])),
               events, i + 1)

\* what the call does alone against the answers it has been resumed with
Alone(call) ==
  RunFrom(call.module, call.tool, call.args, Start(call.module, call.tool, call.args),
          IF call.pc = "ready" THEN SubSeq(call.recv, 1, Len(call.recv) - 1) ELSE call.recv, 1)

\* the call is where it would be alone: same pending request, or same result
AsAlone(call) ==
  CASE call.pc = "idle" -> call = IdleCall
    [] call.pc = "done" -> call.outcome = Alone(call)
    [] OTHER -> /\ Alone(call).k = "await"
                /\ Alone(call).req = call.sent[Len(call.sent)]
                /\ Alone(call).loc = call.loc

\* a step touches the frame of one call and nothing of the module
OneCallSteps ==
  /\ Cardinality({c \in Callers : calls'[c] # calls[c]}) <= 1
  /\ UNCHANGED <<TENANT_ID, API_KEY>>

\* C14: tool calls are independent under concurrency: in every interleaving
\* each call reads and writes no state of another call and returns the value
\* it would return when run alone against the same agent responses; nothing
\* written during one call is visible to a later call.
C14_CallsIndependent ==
  /\ [](\A c \in Callers : AsAlone(calls[c]))
  /\ [][OneCallSteps]_vars

\* two get_tenant_details calls were interleaved: the second fetched its
\* token and sent its GET while the first was between its two requests, and
\* the first has finished with the other token
C14_Witness ==
  /\ calls[1].tool = "get_tenant_details"
  /\ calls[2].tool = "get_tenant_details"
  /\ calls[1].pc = "done"
  /\ calls[1].outcome.k = "return"
  /\ calls[2].pc = "wait"
  /\ Len(calls[2].sent) = 2
  /\ calls[1].sent[2].headers = JObj(<<AuthHeader(kTok1)>>)
  /\ calls[2].sent[2].headers = JObj(<<AuthHeader(kTok2)>>)


\* the call is inside the `async with` block of an http_request
InHttpRequest == pc \in {"wait", "ready"}

\* C15: however an http_request ends - normal return, error status, raised
\* exception, or cancellation of the tool call by the transport - the client
\* session and connection it opened are released; whenever no tool call is
\* in flight, no session opened by a tool is still open.
C15_SessionsReleased == sessions = (IF InHttpRequest THEN 1 ELSE 0)

\* a call was cancelled while its request was pending, the coroutine has
\* been resumed with the CancelledError, and no session is open
C15_Witness ==
  /\ pc = "done"
  /\ recv # <<>>
  /\ LastRecv.k = "cancelled"
  /\ outcome = Raise("CancelledError")
  /\ sessions = 0


\* request i of the call failed: no answer, or an answer with an error status
RequestFailed(i) ==
  \/ recv[i].k \in {"refused", "timeout"}
  \/ recv[i].k = "resp" /\ recv[i].status \notin {200, 201}

\* the connections the agent listed in answer i
ListedIn(i) ==
  IF Answered(i) /\ Get(Parsed(i), kResults, JList(<<>>)).t = "list"
    THEN Get(Parsed(i), kResults, JList(<<>>)).xs
    ELSE <<>>

\* the length of the tool's sequence of requests: one each, two where
\* tools/traction_api.py fetches a token first, four for
\* issue_dynamic_credential, and one message for each listed connection
\* after the query of send_message_by_alias
SequenceLength ==
  CASE tool = "send_message_by_alias" -> 1 + (IF recv = <<>> THEN 0 ELSE Len(ListedIn(1)))
    [] tool = "issue_dynamic_credential" -> 4
    [] module = TractionApi /\ tool \notin {"http_request", "get_bearer_token"} -> 2
    [] OTHER -> 1

\* no request of the call went out twice
NoRequestRepeated == \A i, j \in 1..Len(sent) : i # j => sent[i] # sent[j]

\* C16: no tool retries: within one tool call each HTTP request of the call's
\* fixed sequence is issued at most once, and a failed or error response
\* never causes the same request to be sent again; the failure is reported
\* in the returned value.
C16_NoRetryFailureReturned ==
  /\ Len(sent) <= SequenceLength
  /\ tool # "send_message_by_alias" => NoRequestRepeated
  /\ \A i \in 1..Len(recv) :
       (RequestFailed(i) /\ pc = "done" /\ tool # "http_request") => outcome.k = "return"


\* http_request was called with a method that is none of GET, POST, PUT and
\* DELETE in any case of letters
UnsupportedMethodCall ==
  /\ tool = "http_request"
  /\ Lower(args.method) \notin {mGet, mPost, mPut, mDelete}

\* C17: http_request called with a method other than GET, POST, PUT or
\* DELETE (compared case-insensitively) fails fast with a raised error
\* instead of returning an outcome record, and sends no HTTP request.
C17_UnsupportedMethodRaises ==
  UnsupportedMethodCall =>
    /\ pc = "done"
    /\ sent = <<>>
    /\ outcome.k = "raise"
    /\ BaseUrlDefined(module) => outcome.exc = "ValueError"

\* http_request("patch", "/status") of mcp_tools/traction_api_tool.py has raised
C17_Witness ==
  /\ module = TractionTool
  /\ tool = "http_request"
  /\ args.method = mPatch
  /\ pc = "done"
  /\ outcome = Raise("ValueError")


\* a tool of tools/traction_api.py that authenticates itself is running
AuthenticatedCall ==
  /\ module = TractionApi
  /\ tool \in {"get_tenant_details", "list_connections", "create_out_of_band_invitation"}

\* request i of the call is the token POST; every other one is a resource request
TokenPost(i) == sent[i].method = mPost /\ EndsWith(sent[i].url, pTenantTokenPost)

\* the value of the Authorization header of request i
Authorization(i) ==
  IF IsObj(sent[i].headers) THEN Get(sent[i].headers, kAuthorization, JNull) ELSE JNull

\* C18: tokens are never cached across calls: in tools/traction_api.py every
\* authenticated tool call fetches its own token, the token POST completes
\* before the call's resource request is sent, the resource request carries
\* exactly the token fetched in that same call as `Bearer <token>`, and a
\* token obtained in one tool call is never used by another.
C18_OwnTokenEachCall ==
  AuthenticatedCall =>
    \A i \in 1..Len(sent) :
      ~TokenPost(i) =>
        /\ i = 2
        /\ TokenPost(1)
        /\ Len(recv) >= 1
        /\ TokenIn(1) # JNull
        /\ Authorization(i) = JStr(kBearer \o TokenIn(1).s)

\* the token fetch of the call has failed: the configuration is missing, the
\* POST failed, or its answer holds no token
TokenFetchFailed ==
  \/ NotConfigured
  \/ /\ sent # <<>>
     /\ TokenPost(1)
     /\ Len(recv) >= 1
     /\ recv[1].k # "cancelled"
     /\ Resumed(1)
     /\ TokenIn(1) = JNull

\* C19: a failed token fetch is never silent: in tools/traction_api.py, when
\* get_bearer_token yields an error (missing configuration, failed POST, or
\* no token in the body), the calling tool inspects that failure and does not
\* send its resource request with the error text as the bearer token.
C19_TokenFailureStopsCall ==
  (AuthenticatedCall /\ TokenFetchFailed) =>
    /\ \A i \in 1..Len(sent) : TokenPost(i)
    /\ \A i \in 1..Len(sent) :
         Authorization(i) \notin {JStr(kBearer \o eNoToken), JStr(kBearer \o eMissingConfig)}


\* create_out_of_band_invitation has returned a connection URL: the one text
\* it returns that is not json.dumps(result, indent=2)
ReturnsUrl ==
  /\ tool = "create_out_of_band_invitation"
  /\ pc = "done"
  /\ outcome.k = "return"
  /\ outcome.v.t = "text"

\* the characters of URL-safe base64 without the padding: A-Z a-z 0-9 - _
UrlSafeChar(c) == c \in (65..90) \cup (97..122) \cup (48..57) \cup {45, 95}

\* C20: whenever create_out_of_band_invitation returns a connection URL, the
\* URL starts with the fixed base URL, contains the substring `?oob=`
\* exactly once, and the part after it consists only of URL-safe base64
\* characters with no `=` padding character.
C20_UrlWellFormed ==
  ReturnsUrl =>
    LET parts == Split(outcome.v.s, kOob)
    IN /\ StartsWith(outcome.v.s, base_url \o kOob)
       /\ Len(parts) = 2
       /\ parts[1] = base_url
       /\ \A i \in 1..Len(parts[2]) : UrlSafeChar(parts[2][i])

\* a URL came back whose encoding uses both characters that only the
\* URL-safe alphabet has ("-" and "_") and whose padding was stripped
C20_Witness ==
  /\ ReturnsUrl
  /\ LET parts == Split(outcome.v.s, kOob)
     IN /\ Len(parts) = 2
        /\ \E i \in 1..Len(parts[2]) : parts[2][i] = 45
        /\ \E i \in 1..Len(parts[2]) : parts[2][i] = 95
        /\ Len(parts[2]) % 4 # 0

\* the requests issue_dynamic_credential makes, in the order of its code
DynamicCredentialSteps ==
  <<[method |-> mGet, path |-> pPublicDid],
    [method |-> mGet, path |-> pConnections],
    [method |-> mGet, path |-> pCredDefsCreated],
    [method |-> mPost, path |-> pIssueSend]>>

\* the connections among conns that are in state active, in response order
ActiveIn(conns) ==
  SelectSeq(conns, LAMBDA conn : Get(conn, kState, JNull) = JStr(kActive))

\* the connections of answer 2 that are in state active
ActiveListed == ActiveIn(Get(Parsed(2), kResults, JList(<<>>)).xs)

\* the credential definition ids of answer 3, in response order
CredDefsListed == Get(Parsed(3), kCredDefIds, JList(<<>>))

\* the error text each step of issue_dynamic_credential stops with
StepErrors ==
  <<eNoPublicDid, eNoActiveConnections, eNoCredDefs>>

\* the requests of the call so far are the first steps, in order, and a call
\* that is over has sent nothing after the step it stopped at
StepsInOrder ==
  tool = "issue_dynamic_credential" =>
    /\ Len(sent) <= Len(DynamicCredentialSteps)
    /\ \A i \in 1..Len(sent) :
         /\ sent[i].method = DynamicCredentialSteps[i].method
         /\ sent[i].url = ACAPY_BASE_URL \o DynamicCredentialSteps[i].path
    /\ pc = "done" => Len(sent) = Len(recv)
    /\ \A i \in 1..Len(StepErrors) :
         (pc = "done" /\ outcome = Ret(Text(StepErrors[i]))) => Len(sent) = i
    /\ (pc = "done" /\ outcome.k = "raise") => recv # <<>>

\* the step in which the call puts its fourth request, the offer, on the wire
OfferGoesOut ==
  /\ tool = "issue_dynamic_credential"
  /\ tool' = tool
  /\ Len(sent) = 3
  /\ Len(sent') = 4

\* the offer holds the id of the first active connection of answer 2 and
\* the first credential definition id of answer 3
OfferFromFirsts ==
  LET connections == Get(Loads(recv[2].body).v, kResults, JList(<<>>))
      active == ActiveIn(connections.xs)
      cred_defs == Get(Loads(recv[3].body).v, kCredDefIds, JList(<<>>))
  IN cred_defs.t = "list" =>
       /\ active # <<>>
       /\ cred_defs.xs # <<>>
       /\ Get(sent'[4].json, kConnectionId, Absent)
            = Get(active[1], kConnectionId, JNull)
       /\ Get(sent'[4].json, kCredDefId, Absent) = cred_defs.xs[1]

\* C21: issue_dynamic_credential sends GET /wallet/did/public, GET
\* /connections, GET /credential-definitions/created and POST
\* /issue-credential-2.0/send in this order, each at most once; a call that
\* stopped at a step has sent nothing after it; the offer carries the
\* connection id of the first active connection and the first credential
\* definition id, both in response order.
C21_FixedRequestOrder ==
  /\ []StepsInOrder
  /\ [][OfferGoesOut => OfferFromFirsts]_vars

\* an offer went out after the agent listed an inactive connection before
\* the active one and two credential definitions
C21_Witness ==
  /\ tool = "issue_dynamic_credential"
  /\ Len(sent) = 4
  /\ Len(Get(Parsed(2), kResults, JList(<<>>)).xs) = 2
  /\ ActiveListed = <<Get(Parsed(2), kResults, JList(<<>>)).xs[2]>>
  /\ Len(CredDefsListed.xs) = 2
  /\ CredDefsListed.xs[1] # CredDefsListed.xs[2]
  /\ pc = "done"
  /\ outcome.k = "return"

\* the agent answered GET /connections with a list of connection objects,
\* whatever their labels
ConnectionObjectsListed ==
  /\ Answered(1)
  /\ Get(Parsed(1), kResults, JList(<<>>)).t = "list"
  /\ \A j \in 1..Len(Get(Parsed(1), kResults, JList(<<>>)).xs) :
       IsObj(Get(Parsed(1), kResults, JList(<<>>)).xs[j])

\* the connection has a their_label that is the alias up to letter case
LabelEquals(conn, alias) ==
  /\ HasKey(conn, kTheirLabel)
  /\ Lookup(conn, kTheirLabel).t = "str"
  /\ Lower(Lookup(conn, kTheirLabel).s) = Lower(alias)

\* the listed connections with such a label, in response order
EqualLabelled ==
  SelectSeq(Get(Parsed(1), kResults, JList(<<>>)).xs,
            LAMBDA conn : LabelEquals(conn, args.alias))

\* the single record of a call that found no connection
NoMatchReturned ==
  /\ pc = "done"
  /\ outcome.k = "return"
  /\ outcome.v.t = "pretty"
  /\ IsObj(outcome.v.v)
  /\ HasKey(outcome.v.v, kError)
  /\ Len(sent) = 1

\* C22: query_connection_by_alias and send_message_by_alias select exactly
\* the listed connections whose their_label equals the alias up to letter
\* case, for every list of connections the agent returns, among them
\* connections whose their_label is missing or null.
C22_AliasSelectsEqualLabels ==
  (/\ tool \in {"query_connection_by_alias", "send_message_by_alias"}
   /\ ConnectionObjectsListed
   /\ Resumed(1)) =>
    /\ Len(recv) = 1 => outcome.k # "raise"
    /\ EqualLabelled = <<>> => NoMatchReturned
    /\ (EqualLabelled # <<>> /\ tool = "query_connection_by_alias") =>
         /\ pc = "done"
         /\ outcome = Ret(Pretty(JList(EqualLabelled)))
    /\ (EqualLabelled # <<>> /\ tool = "send_message_by_alias") =>
         /\ ~NoMatchReturned
         /\ Len(sent) >= 2 => loc.matches = EqualLabelled

\* the tools that await one http_request and return json.dumps of its result
CatalogTools ==
  {"query_connections", "get_public_did", "get_proof_record"}

\* a call of a catalog tool; get_tenant_details is one when the caller
\* supplies the token
CatalogCall ==
  \/ tool \in CatalogTools
  \/ tool = "get_tenant_details" /\ module = TractionTool

\* http_request has handed its outcome, a success body or an error record,
\* to the tool and the tool has run on
OutcomeDelivered ==
  /\ Len(recv) = 1
  /\ pc = "done"
  /\ http_request_recv(module, sent[1].method, recv[1]).k = "return"

C24_PayloadPlacement ==
  /\ \A i \in 1..Len(sent) :
       /\ sent[i].method \in HttpMethods
       /\ sent[i].method = mGet => sent[i].json = JNull
       /\ sent[i].method # mGet => sent[i].params = JNull
  /\ (tool = "http_request" /\ sent # <<>>) =>
       /\ sent[1].method = mGet =>
            sent[1].params = args.payload
       /\ sent[1].method \in {mPost, mPut, mDelete} =>
            sent[1].json = args.payload

\* http_request sent a payload as the body of a PUT
C24_Witness ==
  /\ tool = "http_request"
  /\ args.method = mPut
  /\ args.payload # JNull
  /\ Len(sent) = 1
  /\ sent[1].json = args.payload
  /\ sent[1].params = JNull

\* the arguments of get_created_schemas that become query parameters
SchemaFilterNames ==
  {"schema_id", "schema_issuer_did", "schema_name", "schema_version"}

\* the arguments of the call in progress that become query parameters
QueryArguments ==
  IF tool = "list_connections" THEN FilterNames \cup {"limit", "offset"}
  ELSE SchemaFilterNames

\* the query-parameter name of an argument: the argument's own name
OwnName(f) ==
  CASE f = "schema_id" -> kSchemaId
    [] f = "schema_issuer_did" -> kSchemaIssuerDid
    [] f = "schema_name" -> kSchemaName
    [] f = "schema_version" -> kSchemaVersion
    [] OTHER -> ParamName(f)

\* request i is the GET of list_connections or get_created_schemas
FilteredGet(i) ==
  /\ tool \in {"list_connections", "get_created_schemas"}
  /\ sent[i].method = mGet

\* C25: whatever the arguments of list_connections and get_created_schemas,
\* no query parameter with a None/null value is sent, and every argument
\* that is not None is sent under its own name with its value unchanged.
C25_NoneDroppedOthersKept ==
  \A i \in 1..Len(sent) :
    FilteredGet(i) =>
      /\ IsObj(sent[i].params)
      /\ \A j \in 1..Len(sent[i].params.m) : sent[i].params.m[j].v # JNull
      /\ \A f \in QueryArguments :
           args[f] # JNull => <<OwnName(f), args[f]>> \in Pairs(sent[i].params)
      /\ \A f \in QueryArguments :
           args[f] = JNull =>
             \A j \in 1..Len(sent[i].params.m) : sent[i].params.m[j].k # OwnName(f)

\* get_created_schemas(schema_name="name", schema_version="") has sent a GET
\* with these two parameters and no other
C25_Witness ==
  /\ tool = "get_created_schemas"
  /\ args.schema_id = JNull
  /\ args.schema_issuer_did = JNull
  /\ args.schema_name = JStr(kName)
  /\ args.schema_version = JStr(<<>>)
  /\ sent # <<>>
  /\ FilteredGet(Len(sent))
  /\ EndsWith(sent[Len(sent)].url, pSchemasCreated)
  /\ sent[Len(sent)].params
       = JObj(<<Member(kSchemaName, JStr(kName)), Member(kSchemaVersion, JStr(<<>>))>>)

\* the arguments of the call pass the tool's validation
ArgumentsPass ==
  /\ ~MalformedJsonCall
  /\ ~BlankMessageCall

\* C26: every tool of mcp_tools/acapy_api_tool.py whose arguments pass
\* validation sends its request to the base URL the module configures
\* joined with the tool's path; get_status sends one GET to /status and
\* returns the pretty-printed JSON of the answer.
C26_SentToConfiguredBase ==
  (module = McpAcapyTool /\ tool # "http_request" /\ pc # "idle" /\ ArgumentsPass) =>
    /\ sent # <<>>
    /\ StartsWith(sent[1].url, TRACTION_BASE_URL)
    /\ tool = "get_status" =>
         /\ Len(sent) = 1
         /\ sent[1].method = mGet
         /\ sent[1].url = TRACTION_BASE_URL \o pStatus
         /\ OutcomeDelivered =>
              outcome = Ret(Pretty(http_request_recv(module, mGet, recv[1]).v))

\* the send-message POST that goes to connection conn with the call's content
MessagePost(req, conn) ==
  /\ req.method = mPost
  /\ req.url = ACAPY_BASE_URL \o pConnectionsSlash
                 \o Get(conn, kConnectionId, JNull).s \o pSendMessage
  /\ req.json = JObj(<<Member(kContent, JStr(args.content))>>)

\* the connections among conns whose label equals the alias up to letter case
EqualLabelledOf(conns) ==
  SelectSeq(conns, LAMBDA conn : LabelEquals(conn, args.alias))

\* the connections among matching that have a connection id, in list order
MatchingWithId(matching) ==
  SelectSeq(matching, LAMBDA conn : Truthy(Get(conn, kConnectionId, JNull)))

\* the connections the agent listed in answer 1, if it listed any
ListedConnections ==
  LET answer == IF recv[1].k = "resp" THEN Loads(recv[1].body) ELSE ParseFail
      results == IF answer.ok /\ IsObj(answer.v)
                   THEN Get(answer.v, kResults, JList(<<>>)) ELSE JNull
  IN IF results.t = "list" /\ \A j \in 1..Len(results.xs) : LabelOk(results.xs[j])
       THEN results.xs ELSE <<>>

\* a step of send_message_by_alias that puts a request after the first on the wire
PostGoesOut ==
  /\ tool = "send_message_by_alias"
  /\ tool' = tool
  /\ sent # <<>>
  /\ Len(sent') = Len(sent) + 1

\* the connections the call sends to: those of answer 1 whose label equals
\* the alias, which the coroutine holds in `matches` from its first POST on
MatchesOfCall ==
  IF Len(sent) = 1 THEN EqualLabelledOf(ListedConnections) ELSE loc.matches

\* the new request is the POST to the next matching connection with an id,
\* and `matches` is what the call started out with
PostToNextMatch ==
  LET matching == MatchesOfCall
      targets == MatchingWithId(matching)
  IN /\ loc'.matches = matching
     /\ Len(sent) <= Len(targets)
     /\ MessagePost(sent'[Len(sent')], targets[Len(sent)])

\* the step in which send_message_by_alias returns its list of records
ListReturned ==
  /\ tool = "send_message_by_alias"
  /\ tool' = tool
  /\ pc # "done"
  /\ pc' = "done"
  /\ outcome'.k = "return"
  /\ outcome'.v.v.t = "list"

\* every match with an id was posted to, every match without one has its
\* error record
AllMatchesServed ==
  LET matching == MatchesOfCall
  IN /\ Len(sent') - 1 = Len(MatchingWithId(matching))
     /\ Len(outcome'.v.v.xs) = Len(matching)
     /\ \A j \in 1..Len(matching) :
          ~Truthy(Get(matching[j], kConnectionId, JNull)) =>
            /\ HasKey(outcome'.v.v.xs[j], kError)
            /\ Get(outcome'.v.v.xs[j], kConnection, JNull) = matching[j]

C28_OobInvitationReturnsString ==
  (tool = "create_oob_invitation" /\ pc = "done") =>
    /\ outcome.k = "return"
    /\ outcome.v.t \in {"text", "pretty"}
    /\ IF Loads(args.payload).ok
         THEN Len(sent) = 1
         ELSE /\ sent = <<>>
              /\ outcome.v.t = "text"
              /\ StartsWith(outcome.v.s, eInvalidPayload)

\* what query_bcovrin is to return for the event that ended its GET
BcovrinReport(ev, text) ==
  IF ev.k = "resp" /\ ev.status = 200 THEN text = ev.body
  ELSE IF ev.k = "resp" THEN text = eStatusCode \o DumpsNum(ev.status)
  ELSE StartsWith(text, eExceptionOccurred)

\* C29: query_bcovrin never raises and always returns a string: the
\* response text when the status is 200, "Error: Received status code
\* <status>" for any other status, "Exception occurred: ..." when the
\* request raises, the timeout after 10 seconds included; each call makes
\* exactly one GET.
C29_BcovrinAlwaysReports ==
  tool = "query_bcovrin" =>
    /\ Len(sent) = 1
    /\ sent[1].method = mGet
    /\ sent[1].url = BCOVRIN_URL
    /\ sent[1].params = JObj(<<Member(kQuery, JStr(args.query))>>)
    /\ pc = "wait" => elapsed <= 10
    /\ pc = "done" =>
         /\ Len(recv) = 1
         /\ outcome.k = "return"
         /\ outcome.v.t = "text"
         /\ BcovrinReport(recv[1], outcome.v.s)

\* the test net did not answer within 10 seconds and query_bcovrin
\* returned the text of the exception
C29_Witness ==
  /\ tool = "query_bcovrin"
  /\ pc = "done"
  /\ recv = <<[k |-> "timeout"]>>
  /\ outcome.k = "return"
  /\ StartsWith(outcome.v.s, eExceptionOccurred)

\* the body of request i holds the caller's alias, my_label and
\* use_public_did, handshake_protocols exactly when handshake is true, and
\* metadata exactly when the caller gave a non-empty one
InvitationBody(i) ==
  LET body == sent[i].json
  IN /\ IsObj(body)
     /\ Get(body, kAlias, JNull) = JStr(args.alias)
     /\ Get(body, kMyLabel, JNull) = JStr(args.my_label)
     /\ Get(body, kUsePublicDid, JNull) = JBool(args.use_public_did)
     /\ HasKey(body, kHandshakeProtocols) <=> args.handshake
     /\ HasKey(body, kMetadata) <=> (IsObj(args.metadata) /\ args.metadata.m # <<>>)
     /\ HasKey(body, kMetadata) => Lookup(body, kMetadata) = args.metadata

\* request i carries the token of the call: the caller's auth_token, or in
\* tools/traction_api.py the token the call fetched with its first request
CarriesToken(i) ==
  IF module = TractionTool
    THEN Authorization(i) = JStr(kBearer \o args.auth_token)
    ELSE /\ i = 2
         /\ TokenPost(1)
         /\ TokenIn(1) # JNull
         /\ Authorization(i) = JStr(kBearer \o TokenIn(1).s)

\* C30: the body create_out_of_band_invitation posts holds alias, my_label
\* and use_public_did with the caller's values, handshake_protocols if and
\* only if handshake is true and metadata if and only if non-empty metadata
\* was supplied; the request carries the header Authorization: Bearer <token>.
C30_InvitationRequest ==
  \A i \in 1..Len(sent) :
    InvitationPost(i) => (InvitationBody(i) /\ CarriesToken(i))

====
